---- MODULE Spec2Model ----
(***************************************************************************)
(* A model of the picoclaw core: the reload manager (pkg/reload/manager.go),*)
(* the file watcher (pkg/reload/watcher.go), the skills loader              *)
(* (pkg/skills/loader.go), the bootstrap loader and context builder        *)
(* (pkg/agent), history pruning and tool-result truncation.                 *)
(*                                                                         *)
(* Every subsystem has its own variables and its own next-state relation;  *)
(* a specification runs one subsystem and leaves the others in their       *)
(* initial state.                                                          *)
(***************************************************************************)
EXTENDS Integers, Sequences, FiniteSets, TLC

VARIABLES
    \* ---- reload manager (ReloadManager, manager.go:32-41) ----
    rmConfig,      \* rm.config: the stored configuration
    reloading,     \* rm.reloading: keys of the sync.Map
    msgBus,        \* rm.msgBus # nil
    configFile,    \* the content of the file at rm.configPath
    env,           \* the PICOCLAW_* environment of the process
    agentLoop,     \* the settings the agent loop holds
    calls          \* one record per goroutine calling HandleEvent

VARIABLES
    \* ---- file watcher (FileWatcher, watcher.go:56-66) ----
    clock,         \* the time, in ticks
    fsQueue,       \* fw.watcher.Events: raw fsnotify events not yet handled
    fwTimers,      \* fw.timers: path -> id of its time.Timer (0: no entry)
    tmrs,          \* the time.Timer objects that are armed or whose callback runs
    evChan,        \* fw.events
    emitted,       \* path -> number of WatchEvents sent for it so far
    bursts,        \* path -> number of bursts of matching events so far
    lastArrival,   \* path -> arrival time of its last matching event
    arrived,        \* number of raw events so far
    fwLoop,        \* the event loop goroutine: idle, running or exited
    fwClose,       \* how far Close has come
    fwPanicked     \* a callback paniced on the closed events channel

VARIABLES
    \* ---- skills loader (SkillsLoader, loader.go:105-119) ----
    skillRoots,    \* source -> the directory entries of its skills root, by name
    catalog,        \* what the last ListSkills call returned
    loadedSkill

VARIABLES
    \* ---- bootstrap files (part_005:28-220) ----
    bootstrapConfig,  \* BootstrapConfig{MaxChars, TotalMaxChars}
    workspaceFiles,   \* filename -> length of the file (0: no such file)
    bootstrapOut,      \* what the last LoadBootstrapFilesForSession returned
    systemPrompt      \* the bootstrap section of the last BuildSystemPrompt

VARIABLES
    \* ---- message assembly (ContextBuilder.BuildMessages, part_005:497-553) ----
    history,       \* the session history handed to BuildMessages
    built          \* what the last BuildMessages call returned

VARIABLES
    \* ---- tool result truncation (part_004:300-381) ----
    toolText,       \* the tool result: its length and where its newlines are
    contextWindow,  \* contextWindowTokens
    toolOut         \* what the last TruncateToolResult call returned

VARIABLES
    \* ---- context pruning (part_003:14-207) ----
    pruneInput,     \* the message list handed to ApplyPruning
    pruningConfig,  \* PruningConfig
    pruneOut        \* what ApplyPruning returned for pruneInput, and what it
                    \* returned when applied again to that result

VARIABLES
    \* ---- agent loop turn ----
    turn           \* the per-turn state of the agent loop

\* memory tools and the user context of the context builder
VARIABLES
    memFiles,
    currentUserID,
    memRead,
    sessions

\* the message array of a running turn and the tool calls still to dispatch
VARIABLES
    loopMessages,
    pendingCalls

\* the config file, the environment and the last result of LoadConfig
VARIABLES
    cfFile,
    cfEnv,
    cfLoaded

\* the last path handed to determineEventType and its type
VARIABLES
    classified

\* a markdown content and what the frontmatter functions return for it
VARIABLES
    mdContent,
    mdOut

\* the SIGHUP handler
VARIABLES
    sigChan,
    sent,
    dropped,
    taken,
    spawned,
    inFn,
    invoked,
    recovered,
    handler,
    stopPc

\* ---- multi-part summarization (watcher_test.go:418-578) ----
VARIABLES
    suMessages,
    suChunks,
    suRun

\* ---- wiring of the watcher and SIGHUP to the reload manager ----
VARIABLES
    unrequested

rmVars == <<rmConfig, reloading, msgBus, configFile, env, agentLoop, calls>>

fwVars == <<clock, fsQueue, fwTimers, tmrs, evChan, emitted, bursts, lastArrival, arrived,
           fwLoop, fwClose, fwPanicked>>

skVars == <<skillRoots, catalog, loadedSkill>>

bsVars == <<bootstrapConfig, workspaceFiles, bootstrapOut, systemPrompt>>

bmVars == <<history, built>>

trVars == <<toolText, contextWindow, toolOut>>

prVars == <<pruneInput, pruningConfig, pruneOut>>

alVars == <<turn>>

mmVars == <<memFiles, currentUserID, memRead, sessions>>

lpVars == <<loopMessages, pendingCalls>>

cfVars == <<cfFile, cfEnv, cfLoaded>>

clVars == <<classified>>

mdVars == <<mdContent, mdOut>>

sgVars == <<sigChan, sent, dropped, taken, spawned, inFn, invoked, recovered, handler, stopPc>>

suVars == <<suMessages, suChunks, suRun>>

nlVars == <<unrequested>>

vars == <<rmVars, fwVars, skVars, bsVars, bmVars, trVars, prVars, alVars, mmVars, lpVars, cfVars, clVars, mdVars, sgVars, suVars, nlVars>>

(***************************************************************************)
(* Bounds                                                                  *)
(***************************************************************************)
NumCallers == 2

\* the debounce interval, in ticks
DebounceTicks == 2

\* raw filesystem events per run
MaxFsEvents == 3

\* the last tick
MaxClock == 6

\* directory entries in the three skills roots together
MaxSkillDirs == 3

\* bootstrap files present in the workspace at once
MaxBootstrapFiles == 3

\* messages in the session history
MaxHistory == 4

\* messages in the list handed to ApplyPruning
MaxPruneMsgs == 5

\* the largest KeepLastAssistants tried
MaxKeepLastAssistants == 2

\* the longest file data, in pieces, a memory tool writes
MaxMemLen == 3

\* the memory tool calls of one turn
MaxToolCalls == 2

\* messages in the array of one turn
MaxLoopMessages == 6

\* characters of a markdown content
MaxContentLen == 8

\* raw file system events next to a Close
MaxCloseFsEvents == 2

\* SIGHUPs sent to the process
MaxSignals == 3
MaxSummaryMessages == 5

Callers == 1..NumCallers

None == "none"

(***************************************************************************)
(* Sequence helpers                                                        *)
(***************************************************************************)
Range(s) == {s[i] : i \in DOMAIN s}

RECURSIVE SeqFilter(_, _)
\* the elements of s whose index is in keep, in order
SeqFilter(s, keep) ==
    IF s = <<>> THEN <<>>
    ELSE LET n == Len(s)
             init == SeqFilter(SubSeq(s, 1, n - 1), keep)
         IN IF n \in keep THEN Append(init, s[n]) ELSE init

(***************************************************************************)
(* Configuration (pkg/config)                                              *)
(***************************************************************************)
DefaultConfig ==
    [model                     |-> "glm-4.7",
     max_tokens                |-> 8192,
     temperature               |-> "0.7",
     bootstrap_max_chars       |-> 20000,
     bootstrap_total_max_chars |-> 24000,
     context_pruning           |-> [mode |-> "off", keep_last_assistants |-> 4],
     tools_web                 |-> [brave_enabled |-> FALSE],
     additional_memory_dir     |-> ""]

\* The contents a valid config.json takes in the model: each differs from
\* the defaults in some hot-reloadable fields.
ConfigContents ==
    { DefaultConfig,
      [DefaultConfig EXCEPT !.model = "new-model", !.max_tokens = 4096,
                            !.bootstrap_max_chars = 1000,
                            !.context_pruning = [mode |-> "cache-ttl",
                                                 keep_last_assistants |-> 2],
                            !.temperature = "0.2"],
      [DefaultConfig EXCEPT !.tools_web = [brave_enabled |-> TRUE],
                            !.bootstrap_total_max_chars = 2000,
                            !.additional_memory_dir = "/extra/memory"] }

FileStates ==
    {[kind |-> "absent"], [kind |-> "malformed"]}
        \cup {[kind |-> "valid", cfg |-> c] : c \in ConfigContents}

\* the environment: nothing set, a variable that does not parse
\* (PICOCLAW_AGENTS_DEFAULTS_MAX_TOKENS=abc), or a model override
\* (PICOCLAW_AGENTS_DEFAULTS_MODEL=env-model)
AllEnvStates == {"unset", "unparsable", "model"}

\* the environments the reload manager runs under
EnvStates == {"unset", "unparsable"}

\* env.Parse(cfg): every set variable overrides the field it is bound to
EnvParse(cfg, e) == IF e = "model" THEN [cfg EXCEPT !.model = "env-model"] ELSE cfg

LoadConfig_SwallowError(file, e) ==
    IF file.kind = "valid" /\ e # "unparsable"
    THEN [err |-> FALSE, cfg |-> EnvParse(file.cfg, e)]
    ELSE [err |-> FALSE, cfg |-> DefaultConfig]

\* config.LoadConfig(path)
LoadConfig(file, e) ==
    IF file.kind = "absent" THEN [err |-> FALSE, cfg |-> DefaultConfig]
    ELSE IF file.kind = "malformed" THEN [err |-> TRUE, cfg |-> None]
    ELSE IF e = "unparsable" THEN [err |-> TRUE, cfg |-> None]
    ELSE [err |-> FALSE, cfg |-> EnvParse(file.cfg, e)]

\* The names CompareHotReloadable reports, in the order it compares.
CompareHotReloadable(old, new) ==
    (IF old.model # new.model THEN <<"model">> ELSE <<>>)
    \o (IF old.max_tokens # new.max_tokens THEN <<"max_tokens">> ELSE <<>>)
    \o (IF old.temperature # new.temperature THEN <<"temperature">> ELSE <<>>)
    \o (IF old.bootstrap_max_chars # new.bootstrap_max_chars
        THEN <<"bootstrap_max_chars">> ELSE <<>>)
    \o (IF old.bootstrap_total_max_chars # new.bootstrap_total_max_chars
        THEN <<"bootstrap_total_max_chars">> ELSE <<>>)
    \o (IF old.context_pruning # new.context_pruning
        THEN <<"context_pruning">> ELSE <<>>)
    \o (IF old.tools_web # new.tools_web THEN <<"tools.web">> ELSE <<>>)
    \o (IF old.additional_memory_dir # new.additional_memory_dir
        THEN <<"agents.defaults.additional_memory_dir">> ELSE <<>>)

(***************************************************************************)
(* Reload manager (pkg/reload/manager.go)                                  *)
(***************************************************************************)
WatchEventConfig == 0
WatchEventSkill == 1
WatchEventBootstrap == 2
UnknownEventType == 99

EventTypes == {WatchEventConfig, WatchEventSkill, WatchEventBootstrap, UnknownEventType}

ReloadKey_AlwaysConfig(type) == "config"

\* the switch of HandleEvent: the reload an event type is routed to, named by
\* the sync.Map key that reload uses
ReloadKey(type) ==
    IF type = WatchEventConfig THEN "config"
    ELSE IF type = WatchEventSkill THEN "skills"
    ELSE IF type = WatchEventBootstrap THEN "bootstrap"
    ELSE None

\* the program positions at which a call is inside a reload body, i.e.
\* between its LoadOrStore and its deferred Delete
BodyPcs == {"load", "apply", "store", "tools", "return", "skills", "bootstrap"}

Result(success, component, message, error) ==
    [Success |-> success, Component |-> component, Message |-> message, Error |-> error]

NoResult == Result(FALSE, "", "", "pending")

\* a call: its position, the event type it was given, what it has done so
\* far (loaded the config, the hooks it invoked) and the locals of reloadConfig
IdleCall ==
    [pc |-> "idle", type |-> UnknownEventType, sawInFlight |-> FALSE, loaded |-> FALSE,
     newConfig |-> None, changed |-> <<>>, busAtTools |-> FALSE,
     hooks |-> <<>>, result |-> NoResult]

AlreadyInProgress == Result(FALSE, "", "already in progress", "reload already in progress")

InFlight(key) == {c \in Callers : calls[c].pc \in BodyPcs /\ ReloadKey(calls[c].type) = key}

LoadOrStore_NoGuard(key) == FALSE

\* rm.reloading.LoadOrStore(key, true): reports whether the key was present
LoadOrStore(key) == key \in reloading

Hook(name, arg) == [hook |-> name, arg |-> arg]

BootstrapConfigOf(cfg) ==
    [MaxChars |-> cfg.bootstrap_max_chars, TotalMaxChars |-> cfg.bootstrap_total_max_chars]

PruningConfigOf(cfg) ==
    [Mode |-> cfg.context_pruning.mode,
     KeepLastAssistants |-> cfg.context_pruning.keep_last_assistants]

\* one case of the switch of applyConfigChanges
HookFor(field, newConfig) ==
    IF field = "model" THEN <<Hook("UpdateModel", newConfig.model)>>
    ELSE IF field = "max_tokens" THEN <<Hook("UpdateContextWindow", newConfig.max_tokens)>>
    ELSE IF field = "temperature" THEN <<>>
    ELSE IF field \in {"bootstrap_max_chars", "bootstrap_total_max_chars"}
         THEN <<Hook("UpdateBootstrapConfig", BootstrapConfigOf(newConfig))>>
    ELSE IF field = "context_pruning"
         THEN <<Hook("UpdatePruningConfig", PruningConfigOf(newConfig))>>
    ELSE <<>>

RECURSIVE applyConfigChanges(_, _)
\* the hooks applyConfigChanges invokes, in order
applyConfigChanges(newConfig, changedFields) ==
    IF changedFields = <<>> THEN <<>>
    ELSE HookFor(Head(changedFields), newConfig)
             \o applyConfigChanges(newConfig, Tail(changedFields))

\* the effect of one hook on the agent loop
AgentHook(al, h) ==
    IF h.hook = "UpdateModel" THEN [al EXCEPT !.model = h.arg]
    ELSE IF h.hook = "UpdateContextWindow" THEN [al EXCEPT !.contextWindow = h.arg]
    ELSE IF h.hook = "UpdateBootstrapConfig" THEN [al EXCEPT !.bootstrapConfig = h.arg]
    ELSE IF h.hook = "UpdatePruningConfig" THEN [al EXCEPT !.pruningConfig = h.arg]
    ELSE IF h.hook = "ReloadTools" THEN [al EXCEPT !.toolsWeb = h.arg]
    ELSE al

RECURSIVE AgentHooks(_, _)
AgentHooks(al, hs) ==
    IF hs = <<>> THEN al ELSE AgentHooks(AgentHook(al, Head(hs)), Tail(hs))

\* agent.NewAgentLoop(cfg, ...)
NewAgentLoop(cfg) ==
    [model |-> cfg.model, contextWindow |-> cfg.max_tokens,
     bootstrapConfig |-> BootstrapConfigOf(cfg),
     pruningConfig |-> PruningConfigOf(cfg),
     toolsWeb |-> cfg.tools_web]

\* NewReloadManager(agentLoop, cfg, configPath)
RmInit ==
    /\ rmConfig = DefaultConfig
    /\ reloading = {}
    /\ msgBus = FALSE
    /\ configFile = [kind |-> "valid", cfg |-> DefaultConfig]
    /\ env = "unset"
    /\ agentLoop = NewAgentLoop(DefaultConfig)
    /\ calls = [c \in Callers |-> IdleCall]

SetMessageBus ==
    /\ msgBus' = TRUE
    /\ UNCHANGED <<rmConfig, reloading, configFile, env, agentLoop, calls>>

\* somebody saves, corrupts or removes config.json
WriteConfigFile(f) ==
    /\ configFile # f
    /\ configFile' = f
    /\ UNCHANGED <<rmConfig, reloading, msgBus, env, agentLoop, calls>>

SetEnv(e) ==
    /\ env # e
    /\ env' = e
    /\ UNCHANGED <<rmConfig, reloading, msgBus, configFile, agentLoop, calls>>

\* HandleEvent up to and including the LoadOrStore of the reload it routes to
HandleEvent(c, type) ==
    /\ calls[c].pc \in {"idle", "done"}
    /\ LET key == ReloadKey(type)
           fresh == [IdleCall EXCEPT !.type = type,
                                     !.sawInFlight = (InFlight(key) # {})]
       IN IF key = None
          THEN /\ calls' = [calls EXCEPT ![c] =
                       [fresh EXCEPT !.pc = "done",
                                     !.result = Result(FALSE, "", "Unknown event type",
                                                       "unknown event type")]]
               /\ UNCHANGED reloading
          ELSE IF LoadOrStore(key)
          THEN /\ calls' = [calls EXCEPT ![c] =
                       [fresh EXCEPT !.pc = "done", !.result = AlreadyInProgress]]
               /\ UNCHANGED reloading
          ELSE /\ reloading' = reloading \cup {key}
               /\ calls' = [calls EXCEPT ![c] =
                       [fresh EXCEPT !.pc = IF key = "config" THEN "load" ELSE key]]
    /\ UNCHANGED <<rmConfig, msgBus, configFile, env, agentLoop>>

Finish_NoDelete(c, key, res, hs) ==
    /\ reloading' = reloading
    /\ calls' = [calls EXCEPT ![c] =
                    [IdleCall EXCEPT !.pc = "done", !.type = calls[c].type,
                                     !.sawInFlight = calls[c].sawInFlight,
                                     !.loaded = calls[c].loaded,
                                     !.hooks = hs,
                                     !.result = res]]

\* the return of a reload with its deferred rm.reloading.Delete(key); the
\* locals of the call go out of scope (a finished config reload keeps its
\* result only, a skills or bootstrap reload also the hook it invoked)
Finish(c, key, res, hs) ==
    /\ reloading' = reloading \ {key}
    /\ calls' = [calls EXCEPT ![c] =
                    [IdleCall EXCEPT !.pc = "done", !.type = calls[c].type,
                                     !.sawInFlight = calls[c].sawInFlight,
                                     !.loaded = calls[c].loaded,
                                     !.hooks = hs,
                                     !.result = res]]

\* reloadConfig: config.LoadConfig and CompareHotReloadable (manager.go:114-137)
ReloadConfigLoad(c) ==
    /\ calls[c].pc = "load"
    /\ LET r == LoadConfig(configFile, env)
           changedFields == CompareHotReloadable(rmConfig, r.cfg)
       IN IF r.err
          THEN Finish(c, "config",
                      Result(FALSE, "config", "Failed to load configuration file",
                             "load failed"), <<>>)
          ELSE IF changedFields = <<>>
          THEN /\ reloading' = reloading \ {"config"}
               /\ calls' = [calls EXCEPT ![c].pc = "done", ![c].loaded = TRUE,
                                         ![c].result = Result(TRUE, "config",
                                                              "No changes detected", "")]
          ELSE /\ calls' = [calls EXCEPT ![c].pc = "apply", ![c].loaded = TRUE,
                                         ![c].newConfig = r.cfg,
                                         ![c].changed = changedFields]
               /\ UNCHANGED reloading
    /\ UNCHANGED <<rmConfig, msgBus, configFile, env, agentLoop>>

\* reloadConfig: rm.applyConfigChanges(newConfig, changedFields) (manager.go:142)
ReloadConfigApply(c) ==
    /\ calls[c].pc = "apply"
    /\ LET hs == applyConfigChanges(calls[c].newConfig, calls[c].changed)
       IN /\ agentLoop' = AgentHooks(agentLoop, hs)
          /\ calls' = [calls EXCEPT ![c].pc = "store", ![c].hooks = @ \o hs]
    /\ UNCHANGED <<rmConfig, reloading, msgBus, configFile, env>>

\* reloadConfig: rm.config = newConfig under rm.mu (manager.go:145-147)
ReloadConfigStore(c) ==
    /\ calls[c].pc = "store"
    /\ rmConfig' = calls[c].newConfig
    /\ calls' = [calls EXCEPT ![c].pc =
                     IF "tools.web" \in Range(calls[c].changed) THEN "tools" ELSE "return"]
    /\ UNCHANGED <<reloading, msgBus, configFile, env, agentLoop>>

\* reloadTools (manager.go:200-214); ok tells whether AgentLoop.ReloadTools succeeds
ReloadTools(c, ok) ==
    /\ calls[c].pc = "tools"
    /\ IF msgBus
       THEN LET h == Hook("ReloadTools", rmConfig.tools_web)
            IN /\ agentLoop' = IF ok THEN AgentHook(agentLoop, h) ELSE agentLoop
               /\ calls' = [calls EXCEPT ![c].pc = "return", ![c].busAtTools = TRUE,
                                         ![c].hooks = Append(@, h)]
       ELSE /\ ok
            /\ calls' = [calls EXCEPT ![c].pc = "return"]
            /\ UNCHANGED agentLoop
    /\ UNCHANGED <<rmConfig, reloading, msgBus, configFile, env>>

\* reloadConfig: the final return (manager.go:159-163)
ReloadConfigReturn(c) ==
    /\ calls[c].pc = "return"
    /\ Finish(c, "config", Result(TRUE, "config", "Reloaded config", ""), <<>>)
    /\ UNCHANGED <<rmConfig, msgBus, configFile, env, agentLoop>>

\* reloadSkills after its guard; ok tells whether ReloadSkillsSummary succeeds
ReloadSkills(c, ok) ==
    /\ calls[c].pc = "skills"
    /\ Finish(c, "skills",
              IF ok THEN Result(TRUE, "skills", "Skills reloaded", "")
              ELSE Result(FALSE, "skills", "Failed to reload skills summary",
                          "skills failed"),
              <<Hook("ReloadSkillsSummary", None)>>)
    /\ UNCHANGED <<rmConfig, msgBus, configFile, env, agentLoop>>

\* reloadBootstrap after its guard
ReloadBootstrap(c) ==
    /\ calls[c].pc = "bootstrap"
    /\ Finish(c, "bootstrap", Result(TRUE, "bootstrap", "Bootstrap cache invalidated", ""),
              <<Hook("InvalidateBootstrapCache", None)>>)
    /\ UNCHANGED <<rmConfig, msgBus, configFile, env, agentLoop>>

RmNext ==
    \/ SetMessageBus
    \/ \E f \in FileStates : WriteConfigFile(f)
    \/ \E e \in EnvStates : SetEnv(e)
    \/ \E c \in Callers, t \in EventTypes : HandleEvent(c, t)
    \/ \E c \in Callers : ReloadConfigLoad(c)
    \/ \E c \in Callers : ReloadConfigApply(c)
    \/ \E c \in Callers : ReloadConfigStore(c)
    \/ \E c \in Callers, ok \in BOOLEAN : ReloadTools(c, ok)
    \/ \E c \in Callers : ReloadConfigReturn(c)
    \/ \E c \in Callers, ok \in BOOLEAN : ReloadSkills(c, ok)
    \/ \E c \in Callers : ReloadBootstrap(c)

(***************************************************************************)
(* File watcher (pkg/reload/watcher.go)                                    *)
(***************************************************************************)
\* Paths are sequences of components; <<"ws", "SOUL.md">> is ws/SOUL.md.
RECURSIVE Clean(_)
\* filepath.Clean: drops "." and resolves ".." lexically
Clean(path) ==
    IF path = <<>> THEN <<>>
    ELSE LET n == Len(path)
             init == Clean(SubSeq(path, 1, n - 1))
         IN IF path[n] = "." THEN init
            ELSE IF path[n] = ".." /\ init # <<>> THEN SubSeq(init, 1, Len(init) - 1)
            ELSE Append(init, path[n])

\* filepath.Base
Base(path) == LET c == Clean(path) IN IF c = <<>> THEN "." ELSE c[Len(c)]

\* filepath.Dir
Dir(path) == LET c == Clean(path) IN IF c = <<>> THEN <<>> ELSE SubSeq(c, 1, Len(c) - 1)

\* WatcherConfig
ConfigPath == <<"home", "config.json">>
WorkspacePath == <<"ws">>
WatchBootstrap == TRUE
WatchSkills == TRUE

NoEventType == 0 - 1

\* FileWatcher.determineEventType
determineEventType(path) ==
    IF Clean(path) = Clean(ConfigPath) THEN WatchEventConfig
    ELSE IF /\ WatchBootstrap
            /\ Base(path) \in {"IDENTITY.md", "SOUL.md", "AGENTS.md", "USER.md"}
            /\ Clean(Dir(path)) = Clean(WorkspacePath)
         THEN WatchEventBootstrap
    ELSE IF /\ WatchSkills
            /\ Base(path) = "SKILL.md"
            /\ Base(Dir(Dir(path))) = "skills"
         THEN WatchEventSkill
    ELSE NoEventType

\* the paths the operating system reports events for
FsPaths == {ConfigPath, <<"ws", "SOUL.md">>, <<"ws", "notes.txt">>}

\* fsnotify.Op
FsOps == {"Write", "Remove", "Chmod"}

\* handleFsEvent processes write, create, remove and rename events
OpMatches(op) == op \in {"Write", "Create", "Remove", "Rename"}

\* an event that passes both filters of handleFsEvent
Matching(path, op) == determineEventType(path) # NoEventType /\ OpMatches(op)

\* make(chan WatchEvent, 10)
EventsCap == 10

\* NewFileWatcher followed by Start
FwInit ==
    /\ clock = 0
    /\ fsQueue = <<>>
    /\ fwTimers = [p \in FsPaths |-> 0]
    /\ tmrs = {}
    /\ evChan = <<>>
    /\ emitted = [p \in FsPaths |-> 0]
    /\ bursts = [p \in FsPaths |-> 0]
    /\ lastArrival = [p \in FsPaths |-> 0]
    /\ arrived = 0
    /\ fwLoop = "idle"
    /\ fwClose = "none"
    /\ fwPanicked = FALSE

\* FileWatcher.Start: the watches are added and the event loop is started
StartWatcher ==
    /\ fwLoop = "idle"
    /\ fwClose = "none"
    /\ fwLoop' = "running"
    /\ UNCHANGED <<clock, fsQueue, fwTimers, tmrs, evChan, emitted, bursts, lastArrival,
                   arrived, fwClose, fwPanicked>>

\* the operating system reports an event on path p; a matching event opens
\* a new burst unless it comes less than the debounce interval after the
\* previous matching event on p
FsNotify(p, op) ==
    /\ fwLoop # "idle"
    /\ fwClose # "closed"
    /\ arrived < MaxFsEvents
    /\ arrived' = arrived + 1
    /\ fsQueue' = Append(fsQueue, [path |-> p, op |-> op, at |-> clock])
    /\ IF Matching(p, op)
       THEN /\ bursts' = [bursts EXCEPT ![p] =
                   IF @ = 0 \/ clock - lastArrival[p] >= DebounceTicks THEN @ + 1 ELSE @]
            /\ lastArrival' = [lastArrival EXCEPT ![p] = clock]
       ELSE UNCHANGED <<bursts, lastArrival>>
    /\ UNCHANGED <<clock, fwTimers, tmrs, evChan, emitted, fwLoop, fwClose, fwPanicked>>

Armed(t) == t.pc = "armed"

\* timer.Stop(): an armed timer never runs its callback; a timer that has
\* fired already keeps running it
StopTimer(id) == {t \in tmrs : ~(t.id = id /\ Armed(t))}

\* eventLoop receives one event from fw.watcher.Events and runs handleFsEvent
EventLoopHandle ==
    /\ fwLoop = "running"
    /\ fsQueue # <<>>
    /\ LET event == Head(fsQueue)
           path == event.path
           eventType == determineEventType(path)
           id == arrived + 1 - Len(fsQueue)
       IN /\ fsQueue' = Tail(fsQueue)
          /\ IF eventType = NoEventType \/ ~OpMatches(event.op)
             THEN UNCHANGED <<fwTimers, tmrs>>
             ELSE /\ tmrs' = (IF fwTimers[path] # 0 THEN StopTimer(fwTimers[path]) ELSE tmrs)
                             \cup {[id |-> id, path |-> path, type |-> eventType,
                                    op |-> event.op, deadline |-> clock + DebounceTicks,
                                    pc |-> "armed"]}
                  /\ fwTimers' = [fwTimers EXCEPT ![path] = id]
    /\ UNCHANGED <<clock, evChan, emitted, bursts, lastArrival, arrived, fwLoop, fwClose, fwPanicked>>

\* the runtime starts the callback of an expired timer in its own goroutine
TimerFire(t) ==
    /\ t \in tmrs
    /\ Armed(t)
    /\ clock >= t.deadline
    /\ tmrs' = (tmrs \ {t}) \cup {[t EXCEPT !.pc = "fired"]}
    /\ UNCHANGED <<clock, fsQueue, fwTimers, evChan, emitted, bursts, lastArrival, arrived, fwLoop, fwClose, fwPanicked>>

\* callback: fw.mu.Lock(); delete(fw.timers, path); fw.mu.Unlock()
CallbackDelete(t) ==
    /\ t \in tmrs
    /\ t.pc = "fired"
    /\ fwTimers' = [fwTimers EXCEPT ![t.path] = 0]
    /\ tmrs' = (tmrs \ {t}) \cup
                   {[t EXCEPT !.pc = IF t.op \in {"Remove", "Rename"} THEN "probe" ELSE "emit"]}
    /\ UNCHANGED <<clock, fsQueue, evChan, emitted, bursts, lastArrival, arrived, fwLoop, fwClose, fwPanicked>>

\* callback, remove/rename only: time.Sleep, os.Stat, fw.watcher.Add
CallbackProbe(t) ==
    /\ t \in tmrs
    /\ t.pc = "probe"
    /\ tmrs' = (tmrs \ {t}) \cup {[t EXCEPT !.pc = "emit"]}
    /\ UNCHANGED <<clock, fsQueue, fwTimers, evChan, emitted, bursts, lastArrival, arrived, fwLoop, fwClose, fwPanicked>>

\* callback: fw.events <- WatchEvent{Type, Path, Timestamp: time.Now()}
CallbackEmit(t) ==
    /\ t \in tmrs
    /\ t.pc = "emit"
    /\ fwClose # "closed"
    /\ Len(evChan) < EventsCap
    /\ evChan' = Append(evChan, [Type |-> t.type, Path |-> t.path, Timestamp |-> clock])
    /\ emitted' = [emitted EXCEPT ![t.path] = @ + 1]
    /\ tmrs' = tmrs \ {t}
    /\ UNCHANGED <<clock, fsQueue, fwTimers, bursts, lastArrival, arrived, fwLoop, fwClose, fwPanicked>>

\* the reader of Events() takes one WatchEvent
Receive ==
    /\ evChan # <<>>
    /\ evChan' = Tail(evChan)
    /\ UNCHANGED <<clock, fsQueue, fwTimers, tmrs, emitted, bursts, lastArrival, arrived, fwLoop, fwClose, fwPanicked>>

\* time passes; an expired timer fires before the next tick and the event
\* loop takes less than one tick to pick up a raw event
Tick ==
    /\ clock < MaxClock
    /\ \A t \in tmrs : Armed(t) => t.deadline > clock
    /\ \A i \in DOMAIN fsQueue : fsQueue[i].at >= clock
    /\ clock' = clock + 1
    /\ UNCHANGED <<fsQueue, fwTimers, tmrs, evChan, emitted, bursts, lastArrival, arrived, fwLoop, fwClose, fwPanicked>>

FwNext ==
    \/ StartWatcher
    \/ \E p \in FsPaths, op \in FsOps : FsNotify(p, op)
    \/ EventLoopHandle
    \/ \E t \in tmrs : TimerFire(t)
    \/ \E t \in tmrs : CallbackDelete(t)
    \/ \E t \in tmrs : CallbackProbe(t)
    \/ \E t \in tmrs : CallbackEmit(t)
    \/ Receive
    \/ Tick

\* whether fw.ctx is cancelled
CtxDone == fwClose # "none"

\* no step of Close changes these
CloseUnchanged == UNCHANGED <<clock, fsQueue, evChan, emitted, bursts, lastArrival, arrived>>

\* Close: fw.cancel()
CloseCancel ==
    /\ fwClose = "none"
    /\ fwClose' = "cancelled"
    /\ UNCHANGED <<fwTimers, tmrs, fwLoop, fwPanicked>>
    /\ CloseUnchanged

\* Close: under fw.mu, every timer of fw.timers is stopped and deleted
CloseStopTimers ==
    /\ fwClose = "cancelled"
    /\ tmrs' = {t \in tmrs : ~(Armed(t) /\ fwTimers[t.path] = t.id)}
    /\ fwTimers' = [p \in FsPaths |-> 0]
    /\ fwClose' = "waiting"
    /\ UNCHANGED <<fwLoop, fwPanicked>>
    /\ CloseUnchanged

\* Close: fw.wg.Wait() returns, then close(fw.events) and fw.watcher.Close()
CloseReturn ==
    /\ fwClose = "waiting"
    /\ fwLoop # "running"
    /\ fwClose' = "closed"
    /\ UNCHANGED <<fwTimers, tmrs, fwLoop, fwPanicked>>
    /\ CloseUnchanged

\* eventLoop: the select takes <-fw.ctx.Done() and the goroutine returns
EventLoopExit ==
    /\ fwLoop = "running"
    /\ CtxDone
    /\ fwLoop' = "exited"
    /\ UNCHANGED <<fwTimers, tmrs, fwClose, fwPanicked>>
    /\ CloseUnchanged

\* callback: the select takes <-fw.ctx.Done() and the callback returns
CallbackCancelled(t) ==
    /\ t \in tmrs
    /\ t.pc = "emit"
    /\ CtxDone
    /\ tmrs' = tmrs \ {t}
    /\ UNCHANGED <<fwTimers, fwLoop, fwClose, fwPanicked>>
    /\ CloseUnchanged

\* callback: the select takes the send on fw.events after close(fw.events):
\* a send on a closed channel panics
CallbackSendOnClosed(t) ==
    /\ t \in tmrs
    /\ t.pc = "emit"
    /\ fwClose = "closed"
    /\ fwPanicked' = TRUE
    /\ tmrs' = tmrs \ {t}
    /\ UNCHANGED <<fwTimers, fwLoop, fwClose>>
    /\ CloseUnchanged

\* the watcher with Close
FcNext ==
    \/ /\ FwNext
       /\ arrived' <= MaxCloseFsEvents
    \/ CloseCancel
    \/ CloseStopTimers
    \/ CloseReturn
    \/ EventLoopExit
    \/ \E t \in tmrs : CallbackCancelled(t)
    \/ \E t \in tmrs : CallbackSendOnClosed(t)

(***************************************************************************)
(* Skills loader (pkg/skills/loader.go)                                    *)
(***************************************************************************)
\* Names are sequences of characters.
MaxNameLength == 64
MaxDescriptionLength == 1024

AlphaNum == {"a", "b"}

\* namePattern: ^[a-zA-Z0-9]+(-[a-zA-Z0-9]+)*$
namePattern(name) ==
    /\ name # <<>>
    /\ \A i \in DOMAIN name : name[i] \in AlphaNum \cup {"-"}
    /\ name[1] # "-"
    /\ name[Len(name)] # "-"
    /\ \A i \in 1..(Len(name) - 1) : ~(name[i] = "-" /\ name[i + 1] = "-")

\* SkillInfo.validate; a description is modelled by its length
validate(info) ==
    /\ info.Name # <<>>
    /\ Len(info.Name) <= MaxNameLength
    /\ namePattern(info.Name)
    /\ info.Description # 0
    /\ info.Description <= MaxDescriptionLength

\* the sources in priority order
Sources == <<"workspace", "global", "builtin">>

\* sl.workspaceSkills, sl.globalSkills, sl.builtinSkills
RootPath(source) ==
    CASE source = "workspace" -> <<"ws", "skills">>
      [] source = "global" -> <<"home", ".picoclaw", "skills">>
      [] source = "builtin" -> <<"builtin", "skills">>

\* names a directory entry can have
DirNames == {<<"a">>, <<"b">>}

\* what a directory entry of a skills root can be: a plain file, a directory
\* without SKILL.md, or a directory whose SKILL.md has no frontmatter or a
\* frontmatter with a name and a description
EntryShapes ==
    {[isDir |-> FALSE, hasSkillFile |-> FALSE, frontmatter |-> FALSE, fmName |-> <<>>, fmDescription |-> 0],
     [isDir |-> TRUE, hasSkillFile |-> FALSE, frontmatter |-> FALSE, fmName |-> <<>>, fmDescription |-> 0],
     [isDir |-> TRUE, hasSkillFile |-> TRUE, frontmatter |-> FALSE, fmName |-> <<>>, fmDescription |-> 0]}
    \cup {[isDir |-> TRUE, hasSkillFile |-> TRUE, frontmatter |-> TRUE, fmName |-> n, fmDescription |-> 20]
              : n \in {<<"a">>, <<"b">>, <<"-">>}}
    \cup {[isDir |-> TRUE, hasSkillFile |-> TRUE, frontmatter |-> TRUE, fmName |-> <<"a">>, fmDescription |-> 0]}

\* os.ReadDir returns the entries sorted by filename
NameBefore(x, y) == x = <<"a">> /\ y = <<"b">>

\* getSkillMetadata: without frontmatter the name is the directory's and the
\* description is empty
getSkillMetadata(dirName, e) ==
    IF ~e.frontmatter
    THEN [Name |-> dirName, Description |-> 0]
    ELSE [Name |-> e.fmName, Description |-> e.fmDescription]

\* the sources that override source
HigherSources(source) ==
    CASE source = "workspace" -> {}
      [] source = "global" -> {"workspace"}
      [] source = "builtin" -> {"workspace", "global"}

\* the override check of ListSkills: an admitted skill of a higher source
\* whose Name equals the name of the candidate's directory
Overridden(skills, dirName, source) ==
    \E i \in DOMAIN skills :
        skills[i].Name = dirName /\ skills[i].Source \in HigherSources(source)

\* the loop body of ListSkills for one directory entry
ScanEntry(skills, source, dirName, e) ==
    IF ~(e.isDir /\ e.hasSkillFile) THEN skills
    ELSE IF Overridden(skills, dirName, source) THEN skills
    ELSE LET metadata == getSkillMetadata(dirName, e)
             info == [Name |-> metadata.Name,
                      Path |-> [root |-> RootPath(source), dir |-> dirName, file |-> "SKILL.md"],
                      Source |-> source,
                      Description |-> metadata.Description]
         IN IF validate(info) THEN Append(skills, info) ELSE skills

RECURSIVE ScanRoot(_, _, _, _)
\* the loop of ListSkills over one root; todo is the set of entry names
\* not visited yet
ScanRoot(skills, source, entries, todo) ==
    IF todo = {} THEN skills
    ELSE LET dirName == CHOOSE x \in todo : \A y \in todo : ~NameBefore(y, x)
         IN ScanRoot(ScanEntry(skills, source, dirName, entries[dirName]),
                     source, entries, todo \ {dirName})

\* SkillsLoader.ListSkills
ListSkills(roots) ==
    LET ws == ScanRoot(<<>>, "workspace", roots["workspace"], DOMAIN roots["workspace"])
        gl == ScanRoot(ws, "global", roots["global"], DOMAIN roots["global"])
    IN ScanRoot(gl, "builtin", roots["builtin"], DOMAIN roots["builtin"])

SourceSet == {Sources[i] : i \in DOMAIN Sources}

NumSkillDirs == Cardinality({<<src, n>> \in SourceSet \X DirNames : n \in DOMAIN skillRoots[src]})

\* os.ReadFile(filepath.Join(root, name, "SKILL.md")) succeeds
HasSkillFile(roots, source, name) ==
    /\ name \in DOMAIN roots[source]
    /\ roots[source][name].isDir
    /\ roots[source][name].hasSkillFile

NoPath == [root |-> <<>>, dir |-> <<>>, file |-> ""]

\* SkillsLoader.LoadSkill: the file whose stripped content it returns, and ok
LoadSkill(roots, name) ==
    LET found == {i \in DOMAIN Sources : HasSkillFile(roots, Sources[i], name)}
    IN IF found = {}
       THEN [called |-> TRUE, name |-> name, ok |-> FALSE, file |-> NoPath]
       ELSE LET first == CHOOSE i \in found : \A j \in found : i <= j
            IN [called |-> TRUE, name |-> name, ok |-> TRUE,
                file |-> [root |-> RootPath(Sources[first]), dir |-> name, file |-> "SKILL.md"]]

\* the names LoadSkill is called with
SkillNames == {<<"a">>, <<"b">>}

\* no call of LoadSkill since the roots changed
NotLoadedSkill == [called |-> FALSE, name |-> <<>>, ok |-> FALSE, file |-> NoPath]

\* no call of ListSkills since the roots changed
NoCatalog == [called |-> FALSE, skills |-> <<>>]

\* NewSkillsLoader over empty roots
SkInit ==
    /\ skillRoots = [src \in SourceSet |-> <<>>]
    /\ catalog = NoCatalog
    /\ loadedSkill = NotLoadedSkill

\* somebody creates or replaces an entry of a skills root
PutSkillDir(src, dirName, e) ==
    /\ dirName \in DOMAIN skillRoots[src] \/ NumSkillDirs < MaxSkillDirs
    /\ skillRoots' = [skillRoots EXCEPT ![src] =
            [n \in DOMAIN @ \cup {dirName} |-> IF n = dirName THEN e ELSE @[n]]]
    /\ catalog' = NoCatalog
    /\ loadedSkill' = NotLoadedSkill

\* somebody removes an entry of a skills root
RemoveSkillDir(src, dirName) ==
    /\ dirName \in DOMAIN skillRoots[src]
    /\ skillRoots' = [skillRoots EXCEPT ![src] = [n \in DOMAIN @ \ {dirName} |-> @[n]]]
    /\ catalog' = NoCatalog
    /\ loadedSkill' = NotLoadedSkill

\* a call of ListSkills
ListSkillsCall ==
    /\ catalog' = [called |-> TRUE, skills |-> ListSkills(skillRoots)]
    /\ UNCHANGED <<skillRoots, loadedSkill>>

\* a call of LoadSkill
LoadSkillCall(name) ==
    /\ loadedSkill' = LoadSkill(skillRoots, name)
    /\ UNCHANGED <<skillRoots, catalog>>

SkNext ==
    \/ \E src \in SourceSet, n \in DirNames, e \in EntryShapes : PutSkillDir(src, n, e)
    \/ \E src \in SourceSet, n \in DirNames : RemoveSkillDir(src, n)
    \/ ListSkillsCall
    \/ \E name \in SkillNames : LoadSkillCall(name)

(***************************************************************************)
(* Bootstrap files (part_005:28-220)                                       *)
(***************************************************************************)
\* Contents are modelled by their lengths.
DEFAULT_BOOTSTRAP_MAX_CHARS == 20000
DEFAULT_BOOTSTRAP_TOTAL_MAX_CHARS == 24000

\* DefaultBootstrapConfig
DefaultBootstrapConfig ==
    [MaxChars |-> DEFAULT_BOOTSTRAP_MAX_CHARS, TotalMaxChars |-> DEFAULT_BOOTSTRAP_TOTAL_MAX_CHARS]

SessionTypes == {"main", "cron", "subagent", "heartbeat"}

\* getBootstrapFilesForSession
getBootstrapFilesForSession(sessionType) ==
    CASE sessionType = "main" ->
            <<"AGENTS.md", "SOUL.md", "TOOLS.md", "IDENTITY.md", "USER.md", "HEARTBEAT.md">>
      [] sessionType \in {"cron", "subagent"} -> <<"AGENTS.md", "TOOLS.md">>
      [] sessionType = "heartbeat" -> <<"HEARTBEAT.md">>
      [] OTHER ->
            <<"AGENTS.md", "SOUL.md", "TOOLS.md", "IDENTITY.md", "USER.md", "HEARTBEAT.md">>

BootstrapFilenames == Range(getBootstrapFilesForSession("main"))

\* len(filename)
FilenameLen(filename) ==
    CASE filename = "AGENTS.md" -> 9
      [] filename = "SOUL.md" -> 7
      [] filename = "TOOLS.md" -> 8
      [] filename = "IDENTITY.md" -> 11
      [] filename = "USER.md" -> 7
      [] filename = "HEARTBEAT.md" -> 12

RECURSIVE Digits(_)
\* the number of characters %d prints for n >= 0
Digits(n) == IF n < 10 THEN 1 ELSE 1 + Digits(n \div 10)

\* the lengths below 24001 for which float64(n) * 0.70 is just below
\* 7n/10, so that the conversion to int gives one less
HeadRoundsDown ==
    {90, 170, 180, 330, 340, 350, 360, 650, 660, 670, 680, 690, 700, 710, 720,
     730, 1290, 1300, 1310, 1320, 1330, 1340, 1350, 1360, 1370, 1380, 1390,
     1400, 1410, 1420, 1430, 1440, 1450, 1460, 2570, 2580, 2590, 2600, 2610,
     2620, 2630, 2640, 2650, 2660, 2670, 2680, 2690, 2700, 2710, 2720, 2730,
     2740, 2750, 2760, 2770, 2780, 2790, 2800, 2810, 2820, 2830, 2840, 2850,
     2860, 2870, 2880, 2890, 2900, 2910, 2920, 5130, 5140, 5150, 5160, 5170,
     5180, 5190, 5200, 5210, 5220, 5230, 5240, 5250, 5260, 5270, 5280, 5290,
     5300, 5310, 5320, 5330, 5340, 5350, 5360, 5370, 5380, 5390, 5400, 5410,
     5420, 5430, 5440, 5450, 5460, 5470, 5480, 5490, 5500, 5510, 5520, 5530,
     5540, 5550, 5560, 5570, 5580, 5590, 5600, 5610, 5620, 5630, 5640, 5650,
     5660, 5670, 5680, 5690, 5700, 5710, 5720, 5730, 5740, 5750, 5760, 5770,
     5780, 5790, 5800, 5810, 5820, 5830, 5840, 5850, 10250, 10260, 10270,
     10280, 10290, 10300, 10310, 10320, 10330, 10340, 10350, 10360, 10370,
     10380, 10390, 10400, 10410, 10420, 10430, 10440, 10450, 10460, 10470,
     10480, 10490, 10500, 10510, 10520, 10530, 10540, 10550, 10560, 10570,
     10580, 10590, 10600, 10610, 10620, 10630, 10640, 10650, 10660, 10670,
     10680, 10690, 10700, 10710, 10720, 10730, 10740, 10750, 10760, 10770,
     10780, 10790, 10800, 10810, 10820, 10830, 10840, 10850, 10860, 10870,
     10880, 10890, 10900, 10910, 10920, 10930, 10940, 10950, 10960, 10970,
     10980, 10990, 11000, 11010, 11020, 11030, 11040, 11050, 11060, 11070,
     11080, 11090, 11100, 11110, 11120, 11130, 11140, 11150, 11160, 11170,
     11180, 11190, 11200, 11210, 11220, 11230, 11240, 11250, 11260, 11270,
     11280, 11290, 11300, 11310, 11320, 11330, 11340, 11350, 11360, 11370,
     11380, 11390, 11400, 11410, 11420, 11430, 11440, 11450, 11460, 11470,
     11480, 11490, 11500, 11510, 11520, 11530, 11540, 11550, 11560, 11570,
     11580, 11590, 11600, 11610, 11620, 11630, 11640, 11650, 11660, 11670,
     11680, 11690, 11700, 20490, 20500, 20510, 20520, 20530, 20540, 20550,
     20560, 20570, 20580, 20590, 20600, 20610, 20620, 20630, 20640, 20650,
     20660, 20670, 20680, 20690, 20700, 20710, 20720, 20730, 20740, 20750,
     20760, 20770, 20780, 20790, 20800, 20810, 20820, 20830, 20840, 20850,
     20860, 20870, 20880, 20890, 20900, 20910, 20920, 20930, 20940, 20950,
     20960, 20970, 20980, 20990, 21000, 21010, 21020, 21030, 21040, 21050,
     21060, 21070, 21080, 21090, 21100, 21110, 21120, 21130, 21140, 21150,
     21160, 21170, 21180, 21190, 21200, 21210, 21220, 21230, 21240, 21250,
     21260, 21270, 21280, 21290, 21300, 21310, 21320, 21330, 21340, 21350,
     21360, 21370, 21380, 21390, 21400, 21410, 21420, 21430, 21440, 21450,
     21460, 21470, 21480, 21490, 21500, 21510, 21520, 21530, 21540, 21550,
     21560, 21570, 21580, 21590, 21600, 21610, 21620, 21630, 21640, 21650,
     21660, 21670, 21680, 21690, 21700, 21710, 21720, 21730, 21740, 21750,
     21760, 21770, 21780, 21790, 21800, 21810, 21820, 21830, 21840, 21850,
     21860, 21870, 21880, 21890, 21900, 21910, 21920, 21930, 21940, 21950,
     21960, 21970, 21980, 21990, 22000, 22010, 22020, 22030, 22040, 22050,
     22060, 22070, 22080, 22090, 22100, 22110, 22120, 22130, 22140, 22150,
     22160, 22170, 22180, 22190, 22200, 22210, 22220, 22230, 22240, 22250,
     22260, 22270, 22280, 22290, 22300, 22310, 22320, 22330, 22340, 22350,
     22360, 22370, 22380, 22390, 22400, 22410, 22420, 22430, 22440, 22450,
     22460, 22470, 22480, 22490, 22500, 22510, 22520, 22530, 22540, 22550,
     22560, 22570, 22580, 22590, 22600, 22610, 22620, 22630, 22640, 22650,
     22660, 22670, 22680, 22690, 22700, 22710, 22720, 22730, 22740, 22750,
     22760, 22770, 22780, 22790, 22800, 22810, 22820, 22830, 22840, 22850,
     22860, 22870, 22880, 22890, 22900, 22910, 22920, 22930, 22940, 22950,
     22960, 22970, 22980, 22990, 23000, 23010, 23020, 23030, 23040, 23050,
     23060, 23070, 23080, 23090, 23100, 23110, 23120, 23130, 23140, 23150,
     23160, 23170, 23180, 23190, 23200, 23210, 23220, 23230, 23240, 23250,
     23260, 23270, 23280, 23290, 23300, 23310, 23320, 23330, 23340, 23350,
     23360, 23370, 23380, 23390, 23400}

\* int(float64(maxChars) * BOOTSTRAP_HEAD_RATIO)
HeadSize(maxChars) ==
    IF maxChars \in HeadRoundsDown THEN (maxChars * 70) \div 100 - 1 ELSE (maxChars * 70) \div 100

\* int(float64(maxChars) * BOOTSTRAP_TAIL_RATIO)
TailSize(maxChars) == (maxChars * 20) \div 100

\* a content that was not truncated
Whole(n) == [len |-> n, head |-> n, marker |-> 0, tail |-> 0]

\* len of "\n\n[...truncated %s: kept %d+%d chars of %d, read %s for full content...]\n\n"
MarkerLen(filename, headSize, tailSize, contentLen) ==
    64 + 2 * FilenameLen(filename) + Digits(headSize) + Digits(tailSize) + Digits(contentLen)

\* len of "\n[...truncated " + filename + "...]"
ShortMarkerLen(filename) == 19 + FilenameLen(filename)

\* trimBootstrapContent, on the length of the content
trimBootstrapContent(contentLen, filename, maxChars) ==
    IF contentLen <= maxChars THEN Whole(contentLen)
    ELSE LET tailSize == TailSize(maxChars)
             headSize0 == HeadSize(maxChars)
             headSize == IF headSize0 + tailSize > contentLen
                         THEN (IF contentLen - tailSize - 100 < 0 THEN 0
                               ELSE contentLen - tailSize - 100)
                         ELSE headSize0
             tailStart == IF contentLen - tailSize < headSize THEN headSize
                          ELSE contentLen - tailSize
             tail == IF tailSize > 0 /\ contentLen > headSize THEN contentLen - tailStart ELSE 0
         IN IF tail # 0
            THEN LET m == MarkerLen(filename, headSize, tailSize, contentLen)
                 IN [len |-> headSize + m + tail, head |-> headSize, marker |-> m, tail |-> tail]
            ELSE [len |-> headSize + ShortMarkerLen(filename), head |-> headSize,
                  marker |-> ShortMarkerLen(filename), tail |-> 0]

\* the remaining budget below which a file is skipped
MinRemainingBudget == 500

\* len of fmt.Sprintf("## %s\n\n%s\n\n", filename, content)
SectionLen(filename, contentLen) == 7 + FilenameLen(filename) + contentLen

ShrinkAllowed_AtLeast(remaining) == remaining >= MinRemainingBudget
\* if remaining > 500: only add if we have meaningful space left
ShrinkAllowed(remaining) == remaining > MinRemainingBudget

RECURSIVE LoadLoop(_, _, _, _, _)
\* the loop of LoadBootstrapFilesForSession from the i-th file on
LoadLoop(files, config, bootstrapFiles, i, acc) ==
    IF i > Len(bootstrapFiles) THEN acc
    ELSE LET filename == bootstrapFiles[i]
             next(a) == LoadLoop(files, config, bootstrapFiles, i + 1, a)
         IN IF files[filename] = 0 THEN next(acc)
            ELSE LET content1 == IF files[filename] > config.MaxChars
                                 THEN trimBootstrapContent(files[filename], filename, config.MaxChars)
                                 ELSE Whole(files[filename])
                     over == acc.totalUsed + content1.len > config.TotalMaxChars
                     remaining == config.TotalMaxChars - acc.totalUsed
                     content == IF over
                                THEN trimBootstrapContent(content1.len, filename, remaining)
                                ELSE content1
                 IN IF over /\ ~ShrinkAllowed(remaining) THEN next(acc)
                    ELSE next([sections |-> Append(acc.sections,
                                        [filename |-> filename, content |-> content]),
                               resultLen |-> acc.resultLen + SectionLen(filename, content.len),
                               totalUsed |-> acc.totalUsed + content.len])

\* LoadBootstrapFilesForSession
LoadBootstrapFilesForSession(files, config, sessionType) ==
    LoadLoop(files, config, getBootstrapFilesForSession(sessionType), 1,
             [sections |-> <<>>, resultLen |-> 0, totalUsed |-> 0])

\* file lengths tried
FileSizes == {50, 500, 1000, 25000}

\* BootstrapConfig values tried
MaxCharsValues == {100, 600, DEFAULT_BOOTSTRAP_MAX_CHARS}
TotalMaxCharsValues == {150, 1000, DEFAULT_BOOTSTRAP_TOTAL_MAX_CHARS}

\* no call of LoadBootstrapFilesForSession since its inputs changed
NoBootstrapOut ==
    [called |-> FALSE, sessionType |-> None, sections |-> <<>>, resultLen |-> 0, totalUsed |-> 0]

\* no call of BuildSystemPrompt since its inputs changed
NoSystemPrompt == [called |-> FALSE, sessionKind |-> None, sections |-> <<>>]

\* LoadBootstrapFiles(workspace, config): the files of a main session
LoadBootstrapFiles(files, config) == LoadBootstrapFilesForSession(files, config, "main")

\* ContextBuilder.LoadBootstrapFiles, the bootstrap part of BuildSystemPrompt
BuildSystemPrompt(files, config) ==
    LoadBootstrapFiles(files, IF config.MaxChars = 0 THEN DefaultBootstrapConfig ELSE config)

\* an empty workspace and the default configuration
BsInit ==
    /\ bootstrapConfig = DefaultBootstrapConfig
    /\ workspaceFiles = [f \in BootstrapFilenames |-> 0]
    /\ bootstrapOut = NoBootstrapOut
    /\ systemPrompt = NoSystemPrompt

\* somebody writes a bootstrap file of n characters
WriteBootstrapFile(f, n) ==
    /\ workspaceFiles[f] # 0 \/
           Cardinality({g \in BootstrapFilenames : workspaceFiles[g] # 0}) < MaxBootstrapFiles
    /\ workspaceFiles' = [workspaceFiles EXCEPT ![f] = n]
    /\ bootstrapOut' = NoBootstrapOut
    /\ systemPrompt' = NoSystemPrompt
    /\ UNCHANGED bootstrapConfig

\* somebody removes a bootstrap file
RemoveBootstrapFile(f) ==
    /\ workspaceFiles[f] # 0
    /\ workspaceFiles' = [workspaceFiles EXCEPT ![f] = 0]
    /\ bootstrapOut' = NoBootstrapOut
    /\ systemPrompt' = NoSystemPrompt
    /\ UNCHANGED bootstrapConfig

\* ContextBuilder.SetBootstrapConfig
SetBootstrapConfig(m, t) ==
    /\ bootstrapConfig' = [MaxChars |-> m, TotalMaxChars |-> t]
    /\ bootstrapOut' = NoBootstrapOut
    /\ systemPrompt' = NoSystemPrompt
    /\ UNCHANGED workspaceFiles

\* a call of LoadBootstrapFilesForSession
LoadBootstrapCall(sessionType) ==
    /\ bootstrapOut' = [called |-> TRUE, sessionType |-> sessionType] @@
            LoadBootstrapFilesForSession(workspaceFiles, bootstrapConfig, sessionType)
    /\ UNCHANGED <<bootstrapConfig, workspaceFiles, systemPrompt>>

\* the system prompt is built for a session of the given kind:
\* ContextBuilder.BuildSystemPrompt takes no session type
BuildSystemPromptCall(sessionKind) ==
    /\ systemPrompt' = [called |-> TRUE, sessionKind |-> sessionKind,
                        sections |-> BuildSystemPrompt(workspaceFiles, bootstrapConfig).sections]
    /\ UNCHANGED <<bootstrapConfig, workspaceFiles, bootstrapOut>>

\* the workspace and the prompts built from it
BpNext ==
    \/ \E f \in BootstrapFilenames, n \in FileSizes : WriteBootstrapFile(f, n)
    \/ \E f \in BootstrapFilenames : RemoveBootstrapFile(f)
    \/ \E m \in MaxCharsValues, t \in TotalMaxCharsValues : SetBootstrapConfig(m, t)
    \/ \E kind \in SessionTypes : BuildSystemPromptCall(kind)

BsNext ==
    \/ \E f \in BootstrapFilenames, n \in FileSizes : WriteBootstrapFile(f, n)
    \/ \E f \in BootstrapFilenames : RemoveBootstrapFile(f)
    \/ \E m \in MaxCharsValues, t \in TotalMaxCharsValues : SetBootstrapConfig(m, t)
    \/ \E st \in SessionTypes : LoadBootstrapCall(st)

(***************************************************************************)
(* Message assembly (part_005:497-553)                                     *)
(***************************************************************************)
\* providers.Message
Message(role, content, toolCallID) ==
    [Role |-> role, Content |-> content, ToolCallID |-> toolCallID]

HistoryRoles == {"user", "assistant", "tool"}

\* the system prompt of BuildMessages: BuildSystemPrompt() plus the session
\* section when channel and chatID are given, plus the summary section
SystemPrompt(summary, channel, chatID) ==
    "prompt"
    \o (IF channel # "" /\ chatID # ""
        THEN "|Current Session|" \o channel \o "|" \o chatID ELSE "")
    \o (IF summary # "" THEN "|Summary|" \o summary ELSE "")

StripLeadingTools_None(h) == h

RECURSIVE StripLeadingTools(_)
\* for len(history) > 0 && history[0].Role == "tool" { history = history[1:] }
StripLeadingTools(h) ==
    IF Len(h) > 0 /\ h[1].Role = "tool" THEN StripLeadingTools(Tail(h)) ELSE h

\* ContextBuilder.BuildMessages
BuildMessages(h, summary, currentMessage, channel, chatID) ==
    <<Message("system", SystemPrompt(summary, channel, chatID), "")>>
    \o StripLeadingTools(h)
    \o <<Message("user", currentMessage, "")>>

\* no call of BuildMessages since the history changed
NotBuilt == [called |-> FALSE, messages |-> <<>>]

\* an empty session
BmInit ==
    /\ history = <<>>
    /\ built = NotBuilt

\* the session records one more message
AppendHistory(role) ==
    /\ Len(history) < MaxHistory
    /\ history' = Append(history,
            Message(role, "m" \o ToString(Len(history) + 1),
                    IF role = "tool" THEN "call" \o ToString(Len(history) + 1) ELSE ""))
    /\ built' = NotBuilt

\* the session is cleared
ClearHistory ==
    /\ history # <<>>
    /\ history' = <<>>
    /\ built' = NotBuilt

\* a call of BuildMessages
BuildMessagesCall(summary, channel, chatID) ==
    /\ built' = [called |-> TRUE,
                 messages |-> BuildMessages(history, summary, "current", channel, chatID)]
    /\ UNCHANGED history

BmNext ==
    \/ \E role \in HistoryRoles : AppendHistory(role)
    \/ ClearHistory
    \/ \E summary \in {"", "summary"}, channel \in {"", "cli"}, chatID \in {"", "42"} :
           BuildMessagesCall(summary, channel, chatID)

(***************************************************************************)
(* Tool result truncation (part_004:300-381)                               *)
(***************************************************************************)
\* A text is modelled by its length and the set of the (0-based) indices
\* of its newline characters.
HARD_MAX_TOOL_RESULT_CHARS == 400000
MIN_TOOL_RESULT_CHARS == 2000

\* how far back from the limit the newline search goes
NewlineSearchChars == 200

\* len("\n[...truncated...]")
TruncatedMarkerLen == 18

\* calculateMaxToolResultChars; float64(w) * 0.3 * 4 converted to int equals
\* 12w/10 rounded down for every w of 0..400000
calculateMaxToolResultChars(contextWindowTokens) ==
    LET maxChars == (contextWindowTokens * 12) \div 10
    IN IF maxChars > HARD_MAX_TOOL_RESULT_CHARS THEN HARD_MAX_TOOL_RESULT_CHARS
       ELSE IF maxChars < MIN_TOOL_RESULT_CHARS THEN MIN_TOOL_RESULT_CHARS
       ELSE maxChars

\* utils.Truncate(s, maxLen): at most maxLen characters of s
Truncate(text, maxLen) ==
    IF text.len <= maxLen THEN [len |-> text.len, kept |-> text.len, marker |-> 0]
    ELSE [len |-> maxLen, kept |-> maxLen, marker |-> 0]

\* strings.LastIndex(text[from:to], "\n"), -1 when there is none
LastNewline(text, from, to) ==
    LET hits == {p \in text.newlines : from <= p /\ p < to}
    IN IF hits = {} THEN 0 - 1
       ELSE (CHOOSE p \in hits : \A q \in hits : q <= p) - from

\* truncateToolResultText
truncateToolResultText(text, maxChars) ==
    IF text.len <= maxChars THEN [len |-> text.len, kept |-> text.len, marker |-> 0]
    ELSE IF maxChars <= MIN_TOOL_RESULT_CHARS THEN Truncate(text, maxChars)
    ELSE LET searchStart == IF maxChars - NewlineSearchChars < 0 THEN 0
                            ELSE maxChars - NewlineSearchChars
             lastNewline == LastNewline(text, searchStart, maxChars)
             truncationPoint == IF lastNewline # 0 - 1 THEN searchStart + lastNewline + 1
                                ELSE maxChars
         IN [len |-> truncationPoint + TruncatedMarkerLen, kept |-> truncationPoint,
             marker |-> TruncatedMarkerLen]

\* TruncateToolResult
TruncateToolResult(result, contextWindowTokens) ==
    truncateToolResultText(result, calculateMaxToolResultChars(contextWindowTokens))

\* text lengths, newline positions and context windows tried
TextLens == {100, 2000, 2001, 12000, 12001, 500000}
NewlinePositions == {50, 11850, 11999}
ContextWindows == {0, 1667, 8192, 10000, 128000, 400000}

NoToolOut == [called |-> FALSE, len |-> 0, kept |-> 0, marker |-> 0]

TrInit ==
    /\ toolText = [len |-> 100, newlines |-> {}]
    /\ contextWindow = 8192
    /\ toolOut = NoToolOut

\* a tool returns a result
SetToolText(n, nls) ==
    /\ \A p \in nls : p < n
    /\ toolText' = [len |-> n, newlines |-> nls]
    /\ toolOut' = NoToolOut
    /\ UNCHANGED contextWindow

\* the agent's context window is set
SetContextWindow(w) ==
    /\ contextWindow' = w
    /\ toolOut' = NoToolOut
    /\ UNCHANGED toolText

\* a call of TruncateToolResult
TruncateToolResultCall ==
    /\ toolOut' = [called |-> TRUE] @@ TruncateToolResult(toolText, contextWindow)
    /\ UNCHANGED <<toolText, contextWindow>>

TrNext ==
    \/ \E n \in TextLens, nls \in SUBSET NewlinePositions : SetToolText(n, nls)
    \/ \E w \in ContextWindows : SetContextWindow(w)
    \/ TruncateToolResultCall

(***************************************************************************)
(* Context pruning (part_003:14-207)                                       *)
(***************************************************************************)
\* A message is its role and its content; a content is modelled by an
\* identity and its length.
PruningModeOff == "off"
PruningModeCacheTTL == "cache-ttl"

\* DefaultPruningConfig().MinPrunableToolChars
DefaultMinPrunableToolChars == 1000

\* the number of most recent tool results pruneToolResults never removes
RecentToolResultsKept == 3

NoStats == [MessagesRemoved |-> 0, ToolResultsRemoved |-> 0, CharsSaved |-> 0]

RECURSIVE LastIndices(_, _, _, _, _)
\* the backward loops of pruneContextByTTL and pruneToolResults: the indices
\* of the last messages of the role, oldest first; the loop stops as soon as
\* limit or more have been collected
LastIndices(messages, role, limit, i, acc) ==
    IF i < 1 THEN acc
    ELSE IF messages[i].Role = role
         THEN LET acc2 == <<i>> \o acc
              IN IF Len(acc2) >= limit THEN acc2
                 ELSE LastIndices(messages, role, limit, i - 1, acc2)
         ELSE LastIndices(messages, role, limit, i - 1, acc)

RECURSIVE CharsOf(_, _)
\* the sum of len(msg.Content) over the messages whose index is in idx
CharsOf(messages, idx) ==
    IF idx = {} THEN 0
    ELSE LET i == CHOOSE j \in idx : TRUE
         IN messages[i].Content.len + CharsOf(messages, idx \ {i})

\* if msg.Role == "system": always kept
AlwaysKept_Never(msg) == FALSE

AlwaysKept(msg) == msg.Role = "system"

\* if i >= minKeepIndex: kept
AfterCutoff_Strict(i, minKeepIndex) == i > minKeepIndex

AfterCutoff(i, minKeepIndex) == i >= minKeepIndex

\* pruneContextByTTL
pruneContextByTTL(messages, config) ==
    IF config.Mode # PruningModeCacheTTL THEN [messages |-> messages, stats |-> NoStats]
    ELSE IF Len(messages) = 0 THEN [messages |-> messages, stats |-> NoStats]
    ELSE LET lastAssistantIndices ==
                 LastIndices(messages, "assistant", config.KeepLastAssistants,
                             Len(messages), <<>>)
             minKeepIndex == IF Len(lastAssistantIndices) > 0 THEN lastAssistantIndices[1]
                             ELSE Len(messages) + 1
             keep == {i \in DOMAIN messages :
                          AlwaysKept(messages[i]) \/ AfterCutoff(i, minKeepIndex)}
             gone == DOMAIN messages \ keep
         IN [messages |-> SeqFilter(messages, keep),
             stats |-> [MessagesRemoved |-> Cardinality(gone), ToolResultsRemoved |-> 0,
                        CharsSaved |-> CharsOf(messages, gone)]]

\* pruneToolResults
pruneToolResults(messages, config) ==
    IF config.Mode # PruningModeCacheTTL THEN [messages |-> messages, stats |-> NoStats]
    ELSE LET recentToolResults ==
                 LastIndices(messages, "tool", RecentToolResultsKept, Len(messages), <<>>)
             recentToolSet == Range(recentToolResults)
             gone == {i \in DOMAIN messages :
                          /\ messages[i].Role = "tool"
                          /\ i \notin recentToolSet
                          /\ messages[i].Content.len < config.MinPrunableToolChars}
         IN [messages |-> SeqFilter(messages, DOMAIN messages \ gone),
             stats |-> [MessagesRemoved |-> 0, ToolResultsRemoved |-> Cardinality(gone),
                        CharsSaved |-> CharsOf(messages, gone)]]

\* ApplyPruning
ApplyPruning(messages, config) ==
    IF config.Mode = PruningModeOff THEN [messages |-> messages, stats |-> NoStats]
    ELSE LET tool == pruneToolResults(messages, config)
             ttl == pruneContextByTTL(tool.messages, config)
         IN [messages |-> ttl.messages,
             stats |-> [MessagesRemoved |-> ttl.stats.MessagesRemoved,
                        ToolResultsRemoved |-> tool.stats.ToolResultsRemoved,
                        CharsSaved |-> tool.stats.CharsSaved + ttl.stats.CharsSaved]]

\* the messages tried: a role with the length of the content
MessageKinds ==
    {[Role |-> "system", len |-> 300], [Role |-> "user", len |-> 40],
     [Role |-> "assistant", len |-> 60], [Role |-> "tool", len |-> 200],
     [Role |-> "tool", len |-> 5000]}

PruningModes == {PruningModeOff, PruningModeCacheTTL}

NotPruned == [applied |-> 0, once |-> <<>>, twice |-> <<>>, stats |-> NoStats]

PrInit ==
    /\ pruneInput = <<>>
    /\ pruningConfig = [Mode |-> PruningModeOff, KeepLastAssistants |-> 1,
                        MinPrunableToolChars |-> DefaultMinPrunableToolChars]
    /\ pruneOut = NotPruned

\* the conversation grows by one message
AppendMessage(kind) ==
    /\ Len(pruneInput) < MaxPruneMsgs
    /\ pruneInput' = Append(pruneInput,
            [Role |-> kind.Role, Content |-> [id |-> Len(pruneInput) + 1, len |-> kind.len]])
    /\ pruneOut' = NotPruned
    /\ UNCHANGED pruningConfig

\* the conversation is started anew
ResetMessages ==
    /\ pruneInput # <<>>
    /\ pruneInput' = <<>>
    /\ pruneOut' = NotPruned
    /\ UNCHANGED pruningConfig

\* the PruningConfig handed to ApplyPruning changes
SetPruningConfig(mode, k) ==
    /\ pruningConfig' = [pruningConfig EXCEPT !.Mode = mode, !.KeepLastAssistants = k]
    /\ pruneOut' = NotPruned
    /\ UNCHANGED pruneInput

\* ApplyPruning(pruneInput, pruningConfig)
ApplyPruningCall ==
    /\ pruneOut.applied = 0
    /\ LET r == ApplyPruning(pruneInput, pruningConfig)
       IN pruneOut' = [applied |-> 1, once |-> r.messages, twice |-> <<>>, stats |-> r.stats]
    /\ UNCHANGED <<pruneInput, pruningConfig>>

\* ApplyPruning applied to its own result
ApplyPruningAgain ==
    /\ pruneOut.applied = 1
    /\ pruneOut' = [pruneOut EXCEPT !.applied = 2,
                        !.twice = ApplyPruning(pruneOut.once, pruningConfig).messages]
    /\ UNCHANGED <<pruneInput, pruningConfig>>

PrNext ==
    \/ \E kind \in MessageKinds : AppendMessage(kind)
    \/ ResetMessages
    \/ \E mode \in PruningModes, k \in 0..MaxKeepLastAssistants : SetPruningConfig(mode, k)
    \/ ApplyPruningCall
    \/ ApplyPruningAgain

(***************************************************************************)
(* Agent loop turn                                                         *)
(***************************************************************************)
\* the per-turn state machine of the agent loop
TurnTransitions ==
    {<<"IDLE", "BUILDING">>, <<"BUILDING", "CALLING_LLM">>,
     <<"CALLING_LLM", "FINAL">>, <<"CALLING_LLM", "DISPATCHING_TOOLS">>,
     <<"DISPATCHING_TOOLS", "CALLING_LLM">>,
     <<"BUILDING", "CANCELLED">>, <<"CALLING_LLM", "CANCELLED">>,
     <<"DISPATCHING_TOOLS", "CANCELLED">>,
     <<"CALLING_LLM", "FAILED">>, <<"DISPATCHING_TOOLS", "FAILED">>,
     <<"FINAL", "IDLE">>, <<"CANCELLED", "IDLE">>, <<"FAILED", "IDLE">>}

TurnStates == {t[1] : t \in TurnTransitions}

AlInit == turn = "IDLE"

\* the agent loop moves on within a turn, or from one turn to the next
TurnStep(to) ==
    /\ <<turn, to>> \in TurnTransitions
    /\ turn' = to

\* the reload manager serving one caller at a time
OneCaller == \A c \in Callers \ {1} : calls[c].pc = "idle"

(***************************************************************************)
(* Memory tools (part_001) and the user context (part_005:279-294)         *)
(***************************************************************************)

\* A user id is the sequence of the path components of its string: "A" is
\* <<"A">>, ".." is <<"..">>, the empty id is <<>>.  File data is a sequence
\* of pieces; a text piece records the user id it was written with.
MemUserIDs == {<<>>, <<"A">>, <<"B">>, <<"..">>}

Text(by) == [kind |-> "text", by |-> by]
Newline == [kind |-> "nl", by |-> <<>>]
DayHeader == [kind |-> "header", by |-> <<>>]

NoFile == [exists |-> FALSE, data |-> <<>>]
File(data) == [exists |-> TRUE, data |-> data]

\* memoryDir of the three tools: filepath.Join cleans the joined path
MemoryDir(userID) ==
    IF userID # <<>>
    THEN Clean(WorkspacePath \o <<"memory", "users">> \o userID)
    ELSE Clean(WorkspacePath \o <<"memory">>)

MemoryFile(userID) == Clean(MemoryDir(userID) \o <<"MEMORY.md">>)

\* the daily note of today: memoryDir/YYYYMM/YYYYMMDD.md
TodayFile(userID) == Clean(MemoryDir(userID) \o <<"YYYYMM", "YYYYMMDD.md">>)

MemPaths == {MemoryFile(u) : u \in MemUserIDs} \cup {TodayFile(u) : u \in MemUserIDs}

\* os.ReadFile: the data and whether the read succeeded
ReadFile(files, path) == files[path]

NoRead == [called |-> FALSE, longTerm |-> NoFile, notes |-> NoFile]

\* MemoryReadTool.Execute: the long-term memory and the daily note that it
\* puts into its result (the older notes are never written here)
MemoryRead(files, userID) ==
    [called |-> TRUE,
     longTerm |-> ReadFile(files, MemoryFile(userID)),
     notes |-> ReadFile(files, TodayFile(userID))]

\* MemoryWriteTool.Execute: the data it writes to MEMORY.md
MemoryWriteData(files, userID, mode) ==
    IF mode = "append"
    THEN ReadFile(files, MemoryFile(userID)).data \o <<Newline, Text(userID)>>
    ELSE <<Text(userID)>>

\* MemoryAppendTool.Execute: the data it writes to the daily note
MemoryAppendData(files, userID) ==
    LET existingContent == ReadFile(files, TodayFile(userID)).data
    IN IF existingContent = <<>>
       THEN <<DayHeader, Text(userID)>>
       ELSE existingContent \o <<Newline, Text(userID)>>

Sessions == {1, 2}

\* the user of the inbound messages of each session
SessionUser == [s \in Sessions |-> IF s = 1 THEN <<"A">> ELSE <<"B">>]

MmInit ==
    /\ memFiles = [p \in MemPaths |-> NoFile]
    /\ currentUserID = <<>>
    /\ memRead = NoRead
    /\ sessions = [s \in Sessions |-> [pc |-> "idle", resolved |-> <<>>]]

\* ContextBuilder.SetUserContext
SetUserContext(userID) ==
    /\ currentUserID' = userID
    /\ UNCHANGED <<memFiles, memRead, sessions>>

\* ContextBuilder.ClearUserContext
ClearUserContext ==
    /\ currentUserID' = <<>>
    /\ UNCHANGED <<memFiles, memRead, sessions>>

\* MemoryReadTool.Execute
MemoryReadCall ==
    /\ memRead' = MemoryRead(memFiles, currentUserID)
    /\ UNCHANGED <<memFiles, currentUserID, sessions>>

\* MemoryWriteTool.Execute with a content argument
MemoryWriteCall(mode) ==
    LET data == MemoryWriteData(memFiles, currentUserID, mode)
    IN /\ Len(data) <= MaxMemLen
       /\ memFiles' = [memFiles EXCEPT ![MemoryFile(currentUserID)] = File(data)]
       /\ memRead' = NoRead
       /\ UNCHANGED <<currentUserID, sessions>>

\* MemoryAppendTool.Execute with a content argument
MemoryAppendCall ==
    LET data == MemoryAppendData(memFiles, currentUserID)
    IN /\ Len(data) <= MaxMemLen
       /\ memFiles' = [memFiles EXCEPT ![TodayFile(currentUserID)] = File(data)]
       /\ memRead' = NoRead
       /\ UNCHANGED <<currentUserID, sessions>>

MmNext ==
    \/ \E userID \in MemUserIDs \ {<<>>} : SetUserContext(userID)
    \/ ClearUserContext
    \/ MemoryReadCall
    \/ \E mode \in {"overwrite", "append"} : MemoryWriteCall(mode)
    \/ MemoryAppendCall

\* step 1 of a turn: bind the user of the inbound message
BindUserContext(s) ==
    /\ sessions[s].pc = "idle"
    /\ currentUserID' = SessionUser[s]
    /\ sessions' = [sessions EXCEPT ![s] = [pc |-> "running", resolved |-> <<>>]]
    /\ UNCHANGED <<memFiles, memRead>>

\* a memory tool call dispatched within the turn of session s: the tool
\* asks the context builder for the current user id and resolves its path
MemoryToolCall(s) ==
    /\ sessions[s].pc = "running"
    /\ Len(sessions[s].resolved) < MaxToolCalls
    /\ sessions' = [sessions EXCEPT
                      ![s].resolved = Append(@, MemoryDir(currentUserID))]
    /\ memRead' = MemoryRead(memFiles, currentUserID)
    /\ UNCHANGED <<memFiles, currentUserID>>

\* the end of the turn of session s, with or without clearing the user
\* context
EndTurn(s, clear) ==
    /\ sessions[s].pc = "running"
    /\ sessions' = [sessions EXCEPT ![s].pc = "idle"]
    /\ currentUserID' = IF clear THEN <<>> ELSE currentUserID
    /\ UNCHANGED <<memFiles, memRead>>

SsNext ==
    \/ \E s \in Sessions : BindUserContext(s)
    \/ \E s \in Sessions : MemoryToolCall(s)
    \/ \E s \in Sessions, clear \in BOOLEAN : EndTurn(s, clear)

(***************************************************************************)
(* Tool-call iteration of a turn (part_005:555-572)                        *)
(***************************************************************************)

\* a providers.Message of the iteration, with the tool-call list it carries
LoopMessage(role, content, toolCallID, toolCalls) ==
    [Role |-> role, Content |-> content, ToolCallID |-> toolCallID, ToolCalls |-> toolCalls]

\* ContextBuilder.AddToolResult
AddToolResult(messages, toolCallID, toolName, result) ==
    Append(messages, LoopMessage("tool", result, toolCallID, <<>>))

\* ContextBuilder.AddAssistantMessage: the toolCalls parameter is not used
AddAssistantMessage(messages, content, toolCalls) ==
    Append(messages, LoopMessage("assistant", content, "", <<>>))

ToolCallIDs == {"call_1", "call_2"}

\* the tool-call lists of an LLM response: up to two calls with distinct ids
ToolCallLists ==
    {<<>>} \cup {<<a>> : a \in ToolCallIDs}
           \cup {c \in ToolCallIDs \X ToolCallIDs : c[1] # c[2]}

LpInit ==
    /\ loopMessages = <<>>
    /\ pendingCalls = <<>>

\* step 6 of a turn: the assistant turn of a response is appended
AppendAssistantTurn(toolCalls) ==
    /\ pendingCalls = <<>>
    /\ Len(loopMessages) + 1 + Len(toolCalls) <= MaxLoopMessages
    /\ loopMessages' = AddAssistantMessage(loopMessages, "response", toolCalls)
    /\ pendingCalls' = toolCalls

\* step 6 of a turn: the result of the next tool call is appended
AppendToolResult ==
    /\ pendingCalls # <<>>
    /\ loopMessages' = AddToolResult(loopMessages, Head(pendingCalls), "tool", "result")
    /\ pendingCalls' = Tail(pendingCalls)

\* the turn ends and the next one starts with a new array
FinishLoop ==
    /\ pendingCalls = <<>>
    /\ loopMessages # <<>>
    /\ loopMessages' = <<>>
    /\ pendingCalls' = <<>>

LpNext ==
    \/ \E toolCalls \in ToolCallLists : AppendAssistantTurn(toolCalls)
    \/ AppendToolResult
    \/ FinishLoop

(***************************************************************************)
(* Loading the configuration (config.LoadConfig)                           *)
(***************************************************************************)

\* no call of LoadConfig yet
NotLoaded == [called |-> FALSE, file |-> [kind |-> "absent"], env |-> "unset",
              err |-> FALSE, cfg |-> DefaultConfig]

CfInit ==
    /\ cfFile = [kind |-> "absent"]
    /\ cfEnv = "unset"
    /\ cfLoaded = NotLoaded

\* the config file is written, damaged or removed
PutConfigFile(file) ==
    /\ cfFile # file
    /\ cfFile' = file
    /\ UNCHANGED <<cfEnv, cfLoaded>>

\* the process is started under another environment
PutEnv(e) ==
    /\ cfEnv # e
    /\ cfEnv' = e
    /\ UNCHANGED <<cfFile, cfLoaded>>

\* a call of config.LoadConfig(path)
LoadConfigCall ==
    LET r == LoadConfig(cfFile, cfEnv)
    IN /\ cfLoaded' = [called |-> TRUE, file |-> cfFile, env |-> cfEnv, err |-> r.err,
                       cfg |-> IF r.err THEN DefaultConfig ELSE r.cfg]
       /\ UNCHANGED <<cfFile, cfEnv>>

CfNext ==
    \/ \E file \in FileStates : PutConfigFile(file)
    \/ \E e \in AllEnvStates : PutEnv(e)
    \/ LoadConfigCall

(***************************************************************************)
(* Classification of paths (watcher.go:208-239)                            *)
(***************************************************************************)

\* directory and file names of the paths tried
ClDirNames == {"home", "ws", "skills", "weather"}
ClBaseNames == {"config.json", "IDENTITY.md", "SOUL.md", "AGENTS.md", "USER.md",
                "TOOLS.md", "HEARTBEAT.md", "SKILL.md", "notes.txt"}

\* paths of up to two directories and a file name
ClPaths ==
    {<<b>> : b \in ClBaseNames}
        \cup {<<d, b>> : d \in ClDirNames, b \in ClBaseNames}
        \cup {<<d, e, b>> : d \in ClDirNames, e \in ClDirNames, b \in ClBaseNames}

NotClassified == [called |-> FALSE, path |-> <<>>, type |-> NoEventType]

ClInit == classified = NotClassified

\* a call of fw.determineEventType(path)
DetermineEventTypeCall(path) ==
    classified' = [called |-> TRUE, path |-> path, type |-> determineEventType(path)]

ClNext == \E path \in ClPaths : DetermineEventTypeCall(path)

(***************************************************************************)
(* Frontmatter functions (loader.go:853-907)                               *)
(***************************************************************************)

\* A content is a sequence of characters; "x" stands for every character
\* other than a dash and a line break.
MdChars == {"-", "\n", "\r", "x"}

\* strings.HasPrefix
HasPrefix(s, prefix) ==
    Len(s) >= Len(prefix) /\ SubSeq(s, 1, Len(prefix)) = prefix

\* strings.Index: the 0-based index of the first occurrence of sub, or -1
Index(s, sub) ==
    LET at == {i \in 0..(Len(s) - Len(sub)) : SubSeq(s, i + 1, i + Len(sub)) = sub}
    IN IF at = {} THEN 0 - 1 ELSE CHOOSE i \in at : \A j \in at : i <= j

RECURSIVE NormalizeLineEndings(_)
\* ReplaceAll(content, "\r\n", "\n") followed by ReplaceAll(content, "\r", "\n")
NormalizeLineEndings(s) ==
    IF s = <<>> THEN <<>>
    ELSE IF s[1] = "\r" /\ Len(s) > 1 /\ s[2] = "\n" THEN NormalizeLineEndings(Tail(s))
    ELSE <<IF s[1] = "\r" THEN "\n" ELSE s[1]>> \o NormalizeLineEndings(Tail(s))

RECURSIVE TrimLeft(_, _)
\* strings.TrimLeft
TrimLeft(s, cutset) ==
    IF s # <<>> /\ s[1] \in cutset THEN TrimLeft(Tail(s), cutset) ELSE s

Dashes == <<"-", "-", "-">>
ClosingLine == <<"\n", "-", "-", "-">>

\* ParseFrontmatterBlock up to the extraction of the block: whether it finds
\* a block, the block, and whether content[4:] panics (a content shorter
\* than four bytes that starts with "---")
ParseFrontmatterBlock(content) ==
    LET c == NormalizeLineEndings(content)
    IN IF ~HasPrefix(c, Dashes) THEN [found |-> FALSE, panics |-> FALSE, block |-> <<>>]
       ELSE IF Len(c) < 4 THEN [found |-> FALSE, panics |-> TRUE, block |-> <<>>]
       ELSE LET endIndex == Index(SubSeq(c, 5, Len(c)), ClosingLine)
            IN IF endIndex = 0 - 1 THEN [found |-> FALSE, panics |-> FALSE, block |-> <<>>]
               ELSE [found |-> TRUE, panics |-> FALSE, block |-> SubSeq(c, 5, 4 + endIndex)]

\* whether StripFrontmatter finds a block to remove
StripFinds(content) == HasPrefix(content, Dashes) /\ Index(content, ClosingLine) # 0 - 1

\* StripFrontmatter
StripFrontmatter(content) ==
    IF ~HasPrefix(content, Dashes) THEN content
    ELSE LET endIndex == Index(content, ClosingLine)
         IN IF endIndex = 0 - 1 THEN content
            ELSE TrimLeft(SubSeq(content, endIndex + Len(ClosingLine) + 1, Len(content)),
                          {" ", "\t", "\n", "\r"})

NotApplied == [applied |-> FALSE, parsed |-> [found |-> FALSE, panics |-> FALSE, block |-> <<>>],
               stripped |-> <<>>]

MdInit ==
    /\ mdContent = <<>>
    /\ mdOut = NotApplied

\* the content grows by one character
AppendChar(ch) ==
    /\ Len(mdContent) < MaxContentLen
    /\ mdContent' = Append(mdContent, ch)
    /\ mdOut' = NotApplied

\* another content is taken
ResetContent ==
    /\ mdContent # <<>>
    /\ mdContent' = <<>>
    /\ mdOut' = NotApplied

\* ParseFrontmatterBlock and StripFrontmatter are applied to the content
ApplyFrontmatter ==
    /\ mdOut' = [applied |-> TRUE, parsed |-> ParseFrontmatterBlock(mdContent),
                 stripped |-> StripFrontmatter(mdContent)]
    /\ UNCHANGED mdContent

MdNext ==
    \/ \E ch \in MdChars : AppendChar(ch)
    \/ ResetContent
    \/ ApplyFrontmatter

(***************************************************************************)
(* Signal handler (pkg/reload/signals.go)                                  *)
(***************************************************************************)

\* make(chan os.Signal, 1)
SigChanCap == 1

\* the deferred recover of the reload goroutine: a panic of reloadFn ends
\* this goroutine and leaves the handler as it is
AfterPanic_Unrecovered(h) == "crashed"

AfterPanic(h) == h

\* SetupSignalHandler: the channel is registered and handleSignals runs
SgInit ==
    /\ sigChan = 0
    /\ sent = 0
    /\ dropped = 0
    /\ taken = 0
    /\ spawned = 0
    /\ inFn = 0
    /\ invoked = 0
    /\ recovered = 0
    /\ handler = "running"
    /\ stopPc = "none"

\* the process receives a SIGHUP: os/signal sends it to the registered
\* channel without blocking and drops it when the buffer is full
Sighup ==
    /\ stopPc = "none"
    /\ handler = "running"
    /\ sent < MaxSignals
    /\ sent' = sent + 1
    /\ IF sigChan < SigChanCap
       THEN sigChan' = sigChan + 1 /\ UNCHANGED dropped
       ELSE dropped' = dropped + 1 /\ UNCHANGED sigChan
    /\ UNCHANGED <<taken, spawned, inFn, invoked, recovered, handler, stopPc>>

\* handleSignals: case sig := <-sh.sigChan; the reload goroutine is started
HandleSignal ==
    /\ handler = "running"
    /\ sigChan > 0
    /\ sigChan' = sigChan - 1
    /\ taken' = taken + 1
    /\ spawned' = spawned + 1
    /\ UNCHANGED <<sent, dropped, inFn, invoked, recovered, handler, stopPc>>

\* a reload goroutine calls sh.reloadFn()
ReloadInvoke ==
    /\ handler # "crashed"
    /\ spawned > 0
    /\ spawned' = spawned - 1
    /\ inFn' = inFn + 1
    /\ invoked' = invoked + 1
    /\ UNCHANGED <<sigChan, sent, dropped, taken, recovered, handler, stopPc>>

\* sh.reloadFn() returns
ReloadReturn ==
    /\ handler # "crashed"
    /\ inFn > 0
    /\ inFn' = inFn - 1
    /\ UNCHANGED <<sigChan, sent, dropped, taken, spawned, invoked, recovered, handler, stopPc>>

\* sh.reloadFn() panics; the deferred function recovers and logs
ReloadPanic ==
    /\ handler # "crashed"
    /\ inFn > 0
    /\ inFn' = inFn - 1
    /\ recovered' = recovered + 1
    /\ handler' = AfterPanic(handler)
    /\ UNCHANGED <<sigChan, sent, dropped, taken, spawned, invoked, stopPc>>

\* Stop: signal.Stop(sh.sigChan)
StopUnregister ==
    /\ stopPc = "none"
    /\ handler # "crashed"
    /\ stopPc' = "unregistered"
    /\ UNCHANGED <<sigChan, sent, dropped, taken, spawned, inFn, invoked, recovered, handler>>

\* Stop: close(sh.done)
StopCloseDone ==
    /\ stopPc = "unregistered"
    /\ stopPc' = "doneClosed"
    /\ UNCHANGED <<sigChan, sent, dropped, taken, spawned, inFn, invoked, recovered, handler>>

\* handleSignals: case <-sh.done
HandlerExit ==
    /\ handler = "running"
    /\ stopPc = "doneClosed"
    /\ handler' = "exited"
    /\ UNCHANGED <<sigChan, sent, dropped, taken, spawned, inFn, invoked, recovered, stopPc>>

\* Stop: sh.wg.Wait() returns, then close(sh.sigChan)
StopReturn ==
    /\ stopPc = "doneClosed"
    /\ handler = "exited"
    /\ stopPc' = "returned"
    /\ UNCHANGED <<sigChan, sent, dropped, taken, spawned, inFn, invoked, recovered, handler>>

SgNext ==
    \/ Sighup
    \/ HandleSignal
    \/ ReloadInvoke
    \/ ReloadReturn
    \/ ReloadPanic
    \/ StopUnregister
    \/ StopCloseDone
    \/ HandlerExit
    \/ StopReturn

(***************************************************************************)
(* Multi-part summarization                                                *)
(***************************************************************************)

\* a message is its content length; its index in the list identifies it
SummaryMsgLens == {0, 1, 3, 3000}

\* len(msg.Content) of a list of messages given by their indices
RECURSIVE ContentChars(_, _)
ContentChars(messages, indices) ==
    IF indices = <<>> THEN 0
    ELSE messages[Head(indices)] + ContentChars(messages, Tail(indices))

\* ChunkInfo
ChunkInfo(currentChunk, targetTokens, currentChars) ==
    [Messages |-> currentChunk, TargetTokens |-> targetTokens,
     ActualTokens |-> currentChars \div 4]

\* targetChars / 2 (targetChars is a multiple of four, the division is exact)
HalfTargetChars_Whole(targetChars) == targetChars
HalfTargetChars(targetChars) == targetChars \div 2

RECURSIVE SplitLoop(_, _, _, _, _, _)
\* the loop of splitMessagesForSummary from the i-th message on
SplitLoop(messages, targetTokens, i, chunks, currentChunk, currentChars) ==
    LET targetChars == targetTokens * 4
    IN IF i > Len(messages)
       THEN (IF Len(currentChunk) > 0
             THEN Append(chunks, ChunkInfo(currentChunk, targetTokens, currentChars))
             ELSE chunks)
       ELSE LET msgChars == messages[i]
            IN IF msgChars > HalfTargetChars(targetChars)
               THEN SplitLoop(messages, targetTokens, i + 1, chunks, currentChunk, currentChars)
               ELSE IF currentChars + msgChars > targetChars /\ Len(currentChunk) > 0
               THEN SplitLoop(messages, targetTokens, i + 1,
                              Append(chunks, ChunkInfo(currentChunk, targetTokens, currentChars)),
                              <<i>>, msgChars)
               ELSE SplitLoop(messages, targetTokens, i + 1, chunks,
                              Append(currentChunk, i), currentChars + msgChars)

\* splitMessagesForSummary
splitMessagesForSummary(messages, targetTokens) ==
    IF Len(messages) = 0 THEN <<>>
    ELSE SplitLoop(messages, targetTokens, 1, <<>>, <<>>, 0)

\* chunk ratios in thousandths: BASE_CHUNK_RATIO, MIN_CHUNK_RATIO and
\* MIN_CHUNK_RATIO + (BASE_CHUNK_RATIO-MIN_CHUNK_RATIO)*0.5
BaseChunkRatio == 400
MinChunkRatio == 150
MidChunkRatio == 275
SummarySafetyMarginTenths == 12
RESERVE_TOKENS_FLOOR == 20000
LargeAvgMessage == 2000
MediumAvgMessage == 1000

\* computeAdaptiveChunkRatio, in thousandths
computeAdaptiveChunkRatio(messages) ==
    IF Len(messages) = 0 THEN BaseChunkRatio
    ELSE LET avgMessageSize ==
                 ContentChars(messages, [i \in 1..Len(messages) |-> i]) \div Len(messages)
         IN IF avgMessageSize > LargeAvgMessage THEN MinChunkRatio
            ELSE IF avgMessageSize > MediumAvgMessage THEN MidChunkRatio
            ELSE BaseChunkRatio

\* the target tokens per chunk of SummarizeMultipart
TargetTokens(messages, window) ==
    LET scaled == (window * computeAdaptiveChunkRatio(messages)) \div 1000
        margin == (scaled * 10) \div SummarySafetyMarginTenths
    IN IF margin < window - RESERVE_TOKENS_FLOOR
       THEN window - RESERVE_TOKENS_FLOOR
       ELSE margin

\* the strings SummarizeMultipart can return
ExistingSummary(existing) == [kind |-> "existing", parts |-> <<>>, existing |-> existing]
ChunkSummary(n) == [kind |-> "summary", parts |-> <<n>>, existing |-> ""]
MergedSummary(summaries) == [kind |-> "merged", parts |-> summaries, existing |-> ""]
FallbackSummary(first, second) == [kind |-> "fallback", parts |-> <<first, second>>, existing |-> ""]

\* a provider.Chat request: for the chunk of that number, or the merge
ChunkRequest(n) == [kind |-> "chunk", chunk |-> n]
MergeRequest == [kind |-> "merge", chunk |-> 0]

mergeSummaries_LastTwo(summaries, mergeFails) ==
    IF mergeFails
    THEN [result |-> FallbackSummary(summaries[Len(summaries) - 1], summaries[Len(summaries)]),
          err |-> FALSE, requests |-> <<MergeRequest>>]
    ELSE [result |-> MergedSummary(summaries), err |-> FALSE, requests |-> <<MergeRequest>>]
\* mergeSummaries: one request, the concatenation of the first two on failure
mergeSummaries(summaries, mergeFails) ==
    IF mergeFails
    THEN [result |-> FallbackSummary(summaries[1], summaries[2]), err |-> FALSE,
          requests |-> <<MergeRequest>>]
    ELSE [result |-> MergedSummary(summaries), err |-> FALSE, requests |-> <<MergeRequest>>]

RECURSIVE SummarizeLoop(_, _, _, _)
\* the loop over the chunks: one summarizeChunk request per chunk, the
\* summary of a chunk is kept when its request succeeded
SummarizeLoop(chunks, failing, i, acc) ==
    IF i > Len(chunks) THEN acc
    ELSE SummarizeLoop(chunks, failing, i + 1,
                       [requests |-> Append(acc.requests, ChunkRequest(i)),
                        summaries |-> IF i \in failing THEN acc.summaries
                                      ELSE Append(acc.summaries, i)])

\* SummarizeMultipart with a provider that fails the requests of the chunks
\* in failing and, if mergeFails, the merge request
SummarizeMultipart(messages, existingSummary, window, failing, mergeFails) ==
    IF Len(messages) = 0
    THEN [result |-> ExistingSummary(existingSummary), err |-> FALSE,
          chunks |-> 0, requests |-> <<>>, summaries |-> <<>>]
    ELSE LET chunks == splitMessagesForSummary(messages, TargetTokens(messages, window))
             loop == SummarizeLoop(chunks, failing, 1, [requests |-> <<>>, summaries |-> <<>>])
             summaries == loop.summaries
         IN IF Len(summaries) = 0
            THEN [result |-> ExistingSummary(existingSummary), err |-> TRUE,
                  chunks |-> Len(chunks), requests |-> loop.requests, summaries |-> summaries]
            ELSE IF Len(summaries) = 1
            THEN [result |-> ChunkSummary(summaries[1]), err |-> FALSE,
                  chunks |-> Len(chunks), requests |-> loop.requests, summaries |-> summaries]
            ELSE LET merged == mergeSummaries(summaries, mergeFails)
                 IN [result |-> merged.result, err |-> merged.err,
                     chunks |-> Len(chunks), requests |-> loop.requests \o merged.requests,
                     summaries |-> summaries]

\* the chunk requests a call makes: only these can be made to fail
RequestsFor(messages, window) ==
    Len(splitMessagesForSummary(messages, TargetTokens(messages, window)))

\* inputs tried
SplitTargets == {-1, 0, 1, 2}
SummaryWindows == {5, 8, 30003}
ExistingSummaries == {"", "earlier"}

NoChunks == [called |-> FALSE, targetTokens |-> 0, chunks |-> <<>>]
NoRun == [called |-> FALSE, existing |-> "", failing |-> {}, mergeFails |-> FALSE,
          out |-> [result |-> ExistingSummary(""), err |-> FALSE, chunks |-> 0,
                   requests |-> <<>>, summaries |-> <<>>]]

\* no message to summarize yet
SuInit ==
    /\ suMessages = <<>>
    /\ suChunks = NoChunks
    /\ suRun = NoRun

\* one more message in the list to summarize
AppendSummaryMessage(n) ==
    /\ Len(suMessages) < MaxSummaryMessages
    /\ suMessages' = Append(suMessages, n)
    /\ suChunks' = NoChunks
    /\ suRun' = NoRun

\* a call of splitMessagesForSummary; the model keeps the result of the last call
SplitCall(targetTokens) ==
    /\ suChunks' = [called |-> TRUE, targetTokens |-> targetTokens,
                    chunks |-> splitMessagesForSummary(suMessages, targetTokens)]
    /\ suRun' = NoRun
    /\ UNCHANGED suMessages

\* a call of SummarizeMultipart
SummarizeCall(existing, window, failing, mergeFails) ==
    /\ suRun' = [called |-> TRUE, existing |-> existing, failing |-> failing,
                 mergeFails |-> mergeFails,
                 out |-> SummarizeMultipart(suMessages, existing, window,
                                            failing, mergeFails)]
    /\ suChunks' = NoChunks
    /\ UNCHANGED suMessages

SuNext ==
    \/ \E n \in SummaryMsgLens : AppendSummaryMessage(n)
    \/ \E t \in SplitTargets : SplitCall(t)
    \/ \E e \in ExistingSummaries, w \in SummaryWindows :
          \E failing \in SUBSET (1..RequestsFor(suMessages, w)), mergeFails \in BOOLEAN :
              /\ mergeFails => RequestsFor(suMessages, w) - Cardinality(failing) > 1
              /\ SummarizeCall(e, w, failing, mergeFails)

(***************************************************************************)
(* Config changes routed to the reload manager                             *)
(***************************************************************************)

\* no change of the config file waits for its reload request
NlInit == unrequested = FALSE

\* config.json is saved, removed or corrupted; the watcher will emit a config
\* event for it after the debounce delay
SaveConfigFile(f) ==
    /\ WriteConfigFile(f)
    /\ unrequested' = TRUE

\* a config event of the watcher, or the reload function of a SIGHUP, reaches
\* HandleEvent: a request raised after every change made so far
RaiseConfigReload(c) ==
    /\ HandleEvent(c, WatchEventConfig)
    /\ unrequested' = FALSE

\* the steps of the config reloads under way
ConfigReloadStep ==
    /\ \/ SetMessageBus
       \/ \E c \in Callers : ReloadConfigLoad(c)
       \/ \E c \in Callers : ReloadConfigApply(c)
       \/ \E c \in Callers : ReloadConfigStore(c)
       \/ \E c \in Callers, ok \in BOOLEAN : ReloadTools(c, ok)
       \/ \E c \in Callers : ReloadConfigReturn(c)
    /\ UNCHANGED unrequested

NlNext ==
    \/ \E f \in FileStates : SaveConfigFile(f)
    \/ \E c \in Callers : RaiseConfigReload(c)
    \/ ConfigReloadStep

(***************************************************************************)
(* Specifications                                                          *)
(***************************************************************************)
Init == RmInit /\ FwInit /\ SkInit /\ BsInit /\ BmInit /\ TrInit /\ PrInit /\ AlInit /\ MmInit /\ LpInit /\ CfInit /\ ClInit /\ MdInit /\ SgInit /\ SuInit /\ NlInit

Next == RmNext /\ UNCHANGED <<fwVars, skVars, bsVars, bmVars, trVars, prVars, alVars, mmVars, lpVars, cfVars, clVars, mdVars, sgVars, suVars, nlVars>>

\* the reload manager and its callers
Spec == Init /\ [][Next]_vars

NextWatcher == FwNext /\ UNCHANGED <<rmVars, skVars, bsVars, bmVars, trVars, prVars, alVars, mmVars, lpVars, cfVars, clVars, mdVars, sgVars, suVars, nlVars>>

\* the file watcher, the operating system and the clock
SpecWatcher == Init /\ [][NextWatcher]_vars

NextSkills == SkNext /\ UNCHANGED <<rmVars, fwVars, bsVars, bmVars, trVars, prVars, alVars, mmVars, lpVars, cfVars, clVars, mdVars, sgVars, suVars, nlVars>>

\* the skills loader and the contents of its three roots
SpecSkills == Init /\ [][NextSkills]_vars

NextBootstrap == BsNext /\ UNCHANGED <<rmVars, fwVars, skVars, bmVars, trVars, prVars, alVars, mmVars, lpVars, cfVars, clVars, mdVars, sgVars, suVars, nlVars>>

\* the bootstrap loader, its configuration and the workspace files
SpecBootstrap == Init /\ [][NextBootstrap]_vars

NextMessages == BmNext /\ UNCHANGED <<rmVars, fwVars, skVars, bsVars, trVars, prVars, alVars, mmVars, lpVars, cfVars, clVars, mdVars, sgVars, suVars, nlVars>>

\* the session history and the assembly of the message array
SpecMessages == Init /\ [][NextMessages]_vars

NextTruncate == TrNext /\ UNCHANGED <<rmVars, fwVars, skVars, bsVars, bmVars, prVars, alVars, mmVars, lpVars, cfVars, clVars, mdVars, sgVars, suVars, nlVars>>

\* tool results and their truncation
SpecTruncate == Init /\ [][NextTruncate]_vars

NextPruning == PrNext /\ UNCHANGED <<rmVars, fwVars, skVars, bsVars, bmVars, trVars, alVars, mmVars, lpVars, cfVars, clVars, mdVars, sgVars, suVars, nlVars>>

\* message lists, pruning configurations and ApplyPruning
SpecPruning == Init /\ [][NextPruning]_vars

NextTurn ==
    \/ /\ RmNext
       /\ OneCaller'
       /\ UNCHANGED <<fwVars, skVars, bsVars, bmVars, trVars, prVars, alVars, mmVars, lpVars, cfVars, clVars, mdVars, sgVars, suVars, nlVars>>
    \/ /\ \E to \in TurnStates : TurnStep(to)
       /\ UNCHANGED <<rmVars, fwVars, skVars, bsVars, bmVars, trVars, prVars, mmVars, lpVars, cfVars, clVars, mdVars, sgVars, suVars, nlVars>>

\* the reload manager next to an agent loop that runs turns
SpecTurn == Init /\ [][NextTurn]_vars

NextMemory == MmNext /\ UNCHANGED <<rmVars, fwVars, skVars, bsVars, bmVars, trVars, prVars, alVars, lpVars, cfVars, clVars, mdVars, sgVars, suVars, nlVars>>

\* the memory tools under a changing user context
SpecMemory == Init /\ [][NextMemory]_vars

NextSessions == SsNext /\ UNCHANGED <<rmVars, fwVars, skVars, bsVars, bmVars, trVars, prVars, alVars, lpVars, cfVars, clVars, mdVars, sgVars, suVars, nlVars>>

\* the turns of two sessions of different users on one agent
SpecSessions == Init /\ [][NextSessions]_vars

NextLoop == LpNext /\ UNCHANGED <<rmVars, fwVars, skVars, bsVars, bmVars, trVars, prVars, alVars, mmVars, cfVars, clVars, mdVars, sgVars, suVars, nlVars>>

\* the tool-call iteration of a turn
SpecLoop == Init /\ [][NextLoop]_vars

NextConfig == CfNext /\ UNCHANGED <<rmVars, fwVars, skVars, bsVars, bmVars, trVars, prVars, alVars, mmVars, lpVars, clVars, mdVars, sgVars, suVars, nlVars>>

\* LoadConfig under every config file and environment
SpecConfig == Init /\ [][NextConfig]_vars

NextClassify == ClNext /\ UNCHANGED <<rmVars, fwVars, skVars, bsVars, bmVars, trVars, prVars, alVars, mmVars, lpVars, cfVars, mdVars, sgVars, suVars, nlVars>>

\* determineEventType over every path
SpecClassify == Init /\ [][NextClassify]_vars

NextFrontmatter == MdNext /\ UNCHANGED <<rmVars, fwVars, skVars, bsVars, bmVars, trVars, prVars, alVars, mmVars, lpVars, cfVars, clVars, sgVars, suVars, nlVars>>

\* the frontmatter functions over every content
SpecFrontmatter == Init /\ [][NextFrontmatter]_vars

NextClose == FcNext /\ UNCHANGED <<rmVars, skVars, bsVars, bmVars, trVars, prVars, alVars, mmVars, lpVars, cfVars, clVars, mdVars, sgVars, suVars, nlVars>>

\* the file watcher with a Close at any time
SpecClose == Init /\ [][NextClose]_vars

NextSignals == SgNext /\ UNCHANGED <<rmVars, fwVars, skVars, bsVars, bmVars, trVars, prVars, alVars, mmVars, lpVars, cfVars, clVars, mdVars, suVars, nlVars>>

\* the signal handler; the scheduler runs every goroutine that can step
SpecSignals ==
    /\ Init
    /\ [][NextSignals]_vars
    /\ WF_vars(NextSignals /\ HandleSignal)
    /\ WF_vars(NextSignals /\ ReloadInvoke)
    /\ WF_vars(NextSignals /\ (ReloadReturn \/ ReloadPanic))
    /\ WF_vars(NextSignals /\ HandlerExit)

NextPrompt == BpNext /\ UNCHANGED <<rmVars, fwVars, skVars, bmVars, trVars, prVars, alVars, mmVars, lpVars, cfVars, clVars, mdVars, sgVars, suVars, nlVars>>

\* the system prompts built for sessions of every kind
SpecPrompt == Init /\ [][NextPrompt]_vars

NextSummary == SuNext /\ UNCHANGED <<rmVars, fwVars, skVars, bsVars, bmVars, trVars, prVars, alVars, mmVars, lpVars, cfVars, clVars, mdVars, sgVars, nlVars>>

\* the summarizer over every message list
SpecSummary == Init /\ [][NextSummary]_vars

NextChanges == NlNext /\ UNCHANGED <<fwVars, skVars, bsVars, bmVars, trVars, prVars, alVars, mmVars, lpVars, cfVars, clVars, mdVars, sgVars, suVars>>

\* config changes, each followed by a reload request
SpecChanges == Init /\ [][NextChanges]_vars

(***************************************************************************)
(* Properties of the reload manager                                        *)
(***************************************************************************)
ReloadKeys == {"config", "skills", "bootstrap"}

\* C1: of the concurrent HandleEvent calls of one kind at most one is inside
\* the reload body; a call that arrives while one of its kind is in flight
\* has returned at once with Success=false and "already in progress", has
\* not loaded the config and has invoked no hook.
C1_SingleReloadInFlight ==
    /\ \A key \in ReloadKeys : Cardinality(InFlight(key)) <= 1
    /\ \A c \in Callers :
          calls[c].sawInFlight =>
              /\ calls[c].pc = "done"
              /\ calls[c].result = AlreadyInProgress
              /\ ~calls[c].result.Success
              /\ ~calls[c].loaded
              /\ calls[c].hooks = <<>>

\* a call was turned away while another call of its kind is still in its body
C1_Witness ==
    \E c, d \in Callers :
        /\ c # d
        /\ calls[c].sawInFlight
        /\ calls[c].result = AlreadyInProgress
        /\ calls[d].type = calls[c].type
        /\ calls[d].pc \in BodyPcs

\* the configuration cannot be loaded: malformed JSON, or an environment
\* variable that does not parse
LoadFails == \/ configFile.kind = "malformed"
             \/ configFile.kind = "valid" /\ env = "unparsable"

UpdateHooks == {"UpdateModel", "UpdateContextWindow", "UpdateBootstrapConfig",
                "UpdatePruningConfig", "ReloadTools"}

HookNames(hs) == {hs[i].hook : i \in DOMAIN hs}

\* C9: a config reload whose LoadConfig fails returns Success=false with the
\* error, leaves rm.config as it was and invokes no Update* hook and no
\* ReloadTools.
C9_FailedLoadChangesNothing ==
    [][\A c \in Callers :
          (calls[c].pc = "load" /\ calls'[c].pc # "load" /\ LoadFails) =>
              /\ calls'[c].pc = "done"
              /\ ~calls'[c].result.Success
              /\ calls'[c].result.Error # ""
              /\ rmConfig' = rmConfig
              /\ agentLoop' = agentLoop
              /\ HookNames(calls'[c].hooks) \cap UpdateHooks = {}]_vars

\* a config reload has failed to load a file that differs from the stored config
C9_Witness ==
    \E c \in Callers :
        /\ calls[c].pc = "done"
        /\ calls[c].result.Message = "Failed to load configuration file"
        /\ LoadFails

\* hs holds an invocation of the hook `name` with the argument arg
Invoked(hs, name, arg) ==
    \E i \in DOMAIN hs : hs[i].hook = name /\ hs[i].arg = arg

\* the hook the reload manager owes the agent loop for a changed field has
\* been invoked with the value of the new configuration
MatchingHookInvoked(field, newConfig, hs) ==
    /\ field = "model" => Invoked(hs, "UpdateModel", newConfig.model)
    /\ field = "max_tokens" => Invoked(hs, "UpdateContextWindow", newConfig.max_tokens)
    /\ field \in {"bootstrap_max_chars", "bootstrap_total_max_chars"} =>
          Invoked(hs, "UpdateBootstrapConfig", BootstrapConfigOf(newConfig))
    /\ field = "context_pruning" =>
          Invoked(hs, "UpdatePruningConfig", PruningConfigOf(newConfig))

\* C10: on a config reload every field CompareHotReloadable reports has its
\* Update* hook invoked with the new value, ReloadTools is invoked exactly
\* when tools.web changed, and a reload that finds no change invokes no hook.
C10_HooksFollowChangedFields ==
    \A c \in Callers :
        /\ calls[c].pc \in {"store", "tools", "return"} =>
              \A i \in DOMAIN calls[c].changed :
                  MatchingHookInvoked(calls[c].changed[i], calls[c].newConfig,
                                      calls[c].hooks)
        /\ calls[c].pc = "return" =>
              ("ReloadTools" \in HookNames(calls[c].hooks)
                  <=> "tools.web" \in Range(calls[c].changed))
        /\ (calls[c].pc = "done" /\ calls[c].result.Message = "No changes detected") =>
              calls[c].hooks = <<>>

\* the reload of call c ran: its event type is known and it was not turned
\* away as already in progress
ReloadRan(call) ==
    /\ call.pc = "done"
    /\ call.type \in {WatchEventConfig, WatchEventSkill, WatchEventBootstrap}
    /\ call.result # AlreadyInProgress

\* the component a result has to name for an event type
ComponentOf(type) ==
    IF type = WatchEventConfig THEN "config"
    ELSE IF type = WatchEventSkill THEN "skills" ELSE "bootstrap"

\* C21: HandleEvent updates selectively: a config event invokes hooks of the
\* config reload only, a skill event only ReloadSkillsSummary, a bootstrap
\* event only InvalidateBootstrapCache, and neither of the latter two touches
\* the stored config or the agent loop's settings; an event of unknown type
\* invokes nothing and returns Success=false; the result of a reload that ran
\* names its component, and has Success=true unless it carries an error.
C21_SelectiveUpdate ==
    [][\A c \in Callers :
          LET call == calls'[c]
              hooks == HookNames(call.hooks)
          IN /\ call.type = WatchEventConfig => hooks \subseteq UpdateHooks
             /\ call.type = WatchEventSkill =>
                   /\ hooks \subseteq {"ReloadSkillsSummary"}
                   /\ call.pc = "done" /\ ReloadRan(call) => hooks = {"ReloadSkillsSummary"}
                   /\ call # calls[c] => rmConfig' = rmConfig /\ agentLoop' = agentLoop
             /\ call.type = WatchEventBootstrap =>
                   /\ hooks \subseteq {"InvalidateBootstrapCache"}
                   /\ call.pc = "done" /\ ReloadRan(call) => hooks = {"InvalidateBootstrapCache"}
                   /\ call # calls[c] => rmConfig' = rmConfig /\ agentLoop' = agentLoop
             /\ (call.type = UnknownEventType /\ call # IdleCall) =>
                   /\ call.pc = "done"
                   /\ hooks = {}
                   /\ ~call.loaded
                   /\ ~call.result.Success
                   /\ call # calls[c] => rmConfig' = rmConfig /\ agentLoop' = agentLoop
             /\ ReloadRan(call) =>
                   /\ call.result.Component = ComponentOf(call.type)
                   /\ call.result.Error = "" => call.result.Success]_vars

\* a skill reload has run and succeeded while the config file differs from
\* the stored config, and an event of unknown type has been refused
C21_Witness ==
    \E c, d \in Callers :
        /\ ReloadRan(calls[c])
        /\ calls[c].type = WatchEventSkill
        /\ calls[c].result.Success
        /\ calls[d].type = UnknownEventType
        /\ calls[d].pc = "done"
        /\ configFile.kind = "valid"
        /\ configFile.cfg # rmConfig

\* C26: whenever no reload of a kind is executing the in-flight flag of that
\* kind is clear, every exit path of a reload having removed it, so a call
\* is turned away as already in progress only if a reload of its kind was
\* in flight when it arrived.
C26_FlagClearWhenNoneRuns ==
    /\ \A key \in ReloadKeys : InFlight(key) = {} => key \notin reloading
    /\ \A c \in Callers :
          (calls[c].pc = "done" /\ calls[c].result = AlreadyInProgress) =>
              calls[c].sawInFlight

\* a skills reload has left by its failure path and a config reload by the
\* no-change path, and no flag is left
C26_Witness ==
    /\ reloading = {}
    /\ \E c, d \in Callers :
        /\ calls[c].pc = "done"
        /\ calls[c].result.Message = "Failed to reload skills summary"
        /\ calls[d].pc = "done"
        /\ calls[d].result.Message = "No changes detected"

\* C29: a config reload that loads while the config file does not exist
\* leaves the live configuration unchanged: it returns from that step with
\* the stored config as it was, no Update* hook invoked and nothing left to
\* apply.
C29_AbsentFileChangesNothing ==
    [][\A c \in Callers :
          (calls[c].pc = "load" /\ calls'[c].pc # "load" /\ configFile.kind = "absent") =>
              /\ calls'[c].pc = "done"
              /\ calls'[c].changed = <<>>
              /\ HookNames(calls'[c].hooks) \cap UpdateHooks = {}
              /\ rmConfig' = rmConfig
              /\ agentLoop' = agentLoop]_vars

(***************************************************************************)
(* Properties of the file watcher                                          *)
(***************************************************************************)
\* every raw event has been handled and no timer is armed or running
Quiescent == fsQueue = <<>> /\ tmrs = {}

\* C2: a burst of matching events on one path, each less than the debounce
\* interval after the previous one, makes the watcher emit exactly one
\* WatchEvent for the path: once the watcher is quiescent, a path that has
\* seen exactly one burst has exactly one emitted event.
C2_OneEventPerBurst ==
    Quiescent => \A p \in FsPaths : bursts[p] = 1 => emitted[p] = 1

(***************************************************************************)
(* Properties of the skills loader                                         *)
(***************************************************************************)
\* C3: whatever the three skills roots hold, the list ListSkills returns has
\* no two entries with the same Name.
C3_CatalogNamesUnique ==
    catalog.called =>
        \A i, j \in DOMAIN catalog.skills :
            i # j => catalog.skills[i].Name # catalog.skills[j].Name

(***************************************************************************)
(* Properties of the bootstrap loader                                      *)
(***************************************************************************)
\* C4: whatever the configuration and the file sizes, in the output of
\* LoadBootstrapFilesForSession the content included for each file, marker
\* included, is at most MaxChars long and the whole section is at most
\* TotalMaxChars long.
C4_BootstrapWithinLimits ==
    bootstrapOut.called =>
        /\ \A i \in DOMAIN bootstrapOut.sections :
               bootstrapOut.sections[i].content.len <= bootstrapConfig.MaxChars
        /\ bootstrapOut.resultLen <= bootstrapConfig.TotalMaxChars

\* the bootstrap files a session kind may see
SubsetOfKind(kind) ==
    IF kind = "main"
    THEN {"AGENTS.md", "SOUL.md", "TOOLS.md", "IDENTITY.md", "USER.md", "HEARTBEAT.md"}
    ELSE IF kind \in {"cron", "subagent"} THEN {"AGENTS.md", "TOOLS.md"}
    ELSE {"HEARTBEAT.md"}

\* C22: the bootstrap section of the system prompt built for a session of a
\* kind contains only files of the subset of that kind (main: all six; cron
\* and subagent: AGENTS and TOOLS; heartbeat: HEARTBEAT), and only files that
\* exist in the workspace.
C22_PromptFilesOfKind ==
    systemPrompt.called =>
        \A i \in DOMAIN systemPrompt.sections :
            /\ systemPrompt.sections[i].filename \in SubsetOfKind(systemPrompt.sessionKind)
            /\ workspaceFiles[systemPrompt.sections[i].filename] # 0

\* the content of a file after the per-file cap
PerFileCapped(filename) ==
    IF workspaceFiles[filename] > bootstrapConfig.MaxChars
    THEN trimBootstrapContent(workspaceFiles[filename], filename, bootstrapConfig.MaxChars)
    ELSE Whole(workspaceFiles[filename])

RECURSIVE UsedBy(_, _, _)
\* the total content length of the returned sections of the given files
UsedBy(sections, filenames, i) ==
    IF i > Len(sections) THEN 0
    ELSE (IF sections[i].filename \in filenames THEN sections[i].content.len ELSE 0)
         + UsedBy(sections, filenames, i + 1)

\* C23: a file whose per-file-capped content would exceed TotalMaxChars is
\* shrunk to the remaining budget when the remaining budget is at least 500
\* characters (500 included) and is skipped otherwise; a skipped file adds
\* nothing to the used total and the later files are still considered.
C23_ShrinkAtLeast500 ==
    bootstrapOut.called =>
        LET order == getBootstrapFilesForSession(bootstrapOut.sessionType)
            sections == bootstrapOut.sections
        IN \A i \in DOMAIN order :
            workspaceFiles[order[i]] # 0 =>
                LET filename == order[i]
                    capped == PerFileCapped(filename)
                    used == UsedBy(sections, {order[k] : k \in 1..(i - 1)}, 1)
                    remaining == bootstrapConfig.TotalMaxChars - used
                    included(content) ==
                        \E j \in DOMAIN sections :
                            sections[j] = [filename |-> filename, content |-> content]
                IN IF used + capped.len <= bootstrapConfig.TotalMaxChars
                   THEN included(capped)
                   ELSE IF remaining >= MinRemainingBudget
                   THEN included(trimBootstrapContent(capped.len, filename, remaining))
                   ELSE \A j \in DOMAIN sections : sections[j].filename # filename

\* C23 as the code has it: the file is shrunk only when the remaining budget
\* is more than 500 characters, and is skipped at exactly 500.
C23_ShrinkAbove500 ==
    bootstrapOut.called =>
        LET order == getBootstrapFilesForSession(bootstrapOut.sessionType)
            sections == bootstrapOut.sections
        IN \A i \in DOMAIN order :
            workspaceFiles[order[i]] # 0 =>
                LET filename == order[i]
                    capped == PerFileCapped(filename)
                    used == UsedBy(sections, {order[k] : k \in 1..(i - 1)}, 1)
                    remaining == bootstrapConfig.TotalMaxChars - used
                    included(content) ==
                        \E j \in DOMAIN sections :
                            sections[j] = [filename |-> filename, content |-> content]
                IN IF used + capped.len <= bootstrapConfig.TotalMaxChars
                   THEN included(capped)
                   ELSE IF remaining > MinRemainingBudget
                   THEN included(trimBootstrapContent(capped.len, filename, remaining))
                   ELSE \A j \in DOMAIN sections : sections[j].filename # filename

\* a file skipped with exactly 500 characters left, a later one included
C23_Witness ==
    /\ bootstrapOut.called
    /\ bootstrapOut.sessionType = "main"
    /\ bootstrapConfig.TotalMaxChars - bootstrapOut.totalUsed < MinRemainingBudget
    /\ \E i, k \in DOMAIN getBootstrapFilesForSession("main") :
        LET order == getBootstrapFilesForSession("main")
            used == UsedBy(bootstrapOut.sections, {order[n] : n \in 1..(i - 1)}, 1)
        IN /\ i < k
           /\ workspaceFiles[order[i]] # 0
           /\ bootstrapConfig.TotalMaxChars - used = MinRemainingBudget
           /\ \A j \in DOMAIN bootstrapOut.sections :
                  bootstrapOut.sections[j].filename # order[i]
           /\ \E j \in DOMAIN bootstrapOut.sections :
                  bootstrapOut.sections[j].filename = order[k]

(***************************************************************************)
(* Properties of the message assembly                                      *)
(***************************************************************************)
\* no tool message stands before the first assistant message of msgs
NoToolBeforeFirstAssistant(msgs) ==
    \A j \in DOMAIN msgs :
        (msgs[j].Role = "assistant" /\ \A k \in 1..(j - 1) : msgs[k].Role # "assistant")
            => \A i \in 1..(j - 1) : msgs[i].Role # "tool"

\* every tool message of h but the first message follows an assistant or a
\* tool message
ToolsFollowCalls(h) ==
    \A i \in 2..Len(h) : h[i].Role = "tool" => h[i - 1].Role \in {"assistant", "tool"}

C6_ToolResultWithinLimit ==
    toolOut.called =>
        /\ toolOut.len <= HARD_MAX_TOOL_RESULT_CHARS
        /\ toolOut.len <= MIN_TOOL_RESULT_CHARS \/ toolOut.len * 10 <= contextWindow * 12

(***************************************************************************)
(* Properties of the context pruning                                       *)
(***************************************************************************)
\* the indices of the assistant messages of msgs
AssistantIndices(msgs) == {i \in DOMAIN msgs : msgs[i].Role = "assistant"}

\* the indices of the last k assistant messages of msgs
LastAssistants(msgs, k) ==
    {i \in AssistantIndices(msgs) :
         Cardinality({j \in AssistantIndices(msgs) : j >= i}) <= k}

\* C7: with mode cache-ttl, the result of ApplyPruning contains every system
\* message of the input and the last KeepLastAssistants assistant messages
\* of the input (all of them when there are fewer), and contains no
\* non-system message that stood strictly before the
\* KeepLastAssistants-th-last assistant message.
C7_PruningPreserves ==
    (pruneOut.applied >= 1 /\ pruningConfig.Mode = PruningModeCacheTTL) =>
        LET k == pruningConfig.KeepLastAssistants
            last == LastAssistants(pruneInput, k)
            out == Range(pruneOut.once)
        IN /\ \A i \in DOMAIN pruneInput :
                  pruneInput[i].Role = "system" => pruneInput[i] \in out
           /\ \A i \in last : pruneInput[i] \in out
           /\ (k >= 1 /\ Cardinality(last) = k) =>
                  \A i \in DOMAIN pruneInput :
                      (pruneInput[i].Role # "system" /\ \A j \in last : i < j)
                          => pruneInput[i] \notin out

\* a list with a system message, a user message before the second-last of
\* three assistant messages, pruned with KeepLastAssistants = 2
C7_Witness ==
    /\ pruneOut.applied >= 1
    /\ pruningConfig.Mode = PruningModeCacheTTL
    /\ pruningConfig.KeepLastAssistants = 2
    /\ Cardinality(AssistantIndices(pruneInput)) = 3
    /\ \E i \in DOMAIN pruneInput : pruneInput[i].Role = "system"
    /\ \E i \in DOMAIN pruneInput :
           /\ pruneInput[i].Role = "user"
           /\ \A j \in LastAssistants(pruneInput, 2) : i < j
    /\ Len(pruneOut.once) < Len(pruneInput)

\* C8: applying ApplyPruning to its own result, with the same
\* configuration, returns that result unchanged.
C8_PruningIdempotent ==
    pruneOut.applied = 2 => pruneOut.twice = pruneOut.once

\* a list from which the first application removed a small old tool result
\* and an old message, and which was pruned a second time
C8_Witness ==
    /\ pruneOut.applied = 2
    /\ pruningConfig.Mode = PruningModeCacheTTL
    /\ pruneOut.stats.ToolResultsRemoved >= 1
    /\ pruneOut.stats.MessagesRemoved >= 1
    /\ pruneOut.once # <<>>
    /\ \E i \in DOMAIN pruneOut.once : pruneOut.once[i].Role = "tool"

\* out holds messages of in only, in the order of in (contents are distinct)
IsSubsequence(out, in) ==
    /\ \A i \in DOMAIN out : out[i] \in Range(in)
    /\ \A i, j \in DOMAIN out : i < j => out[i].Content.id < out[j].Content.id

\* C30: for a non-empty list ApplyPruning keeps the last message when it is
\* a user or assistant message, also when the list holds no assistant
\* message, and its output is a subsequence of its input.
C30_LastMessageKept ==
    (pruneOut.applied >= 1 /\ pruneInput # <<>>) =>
        /\ IsSubsequence(pruneOut.once, pruneInput)
        /\ pruneInput[Len(pruneInput)].Role \in {"user", "assistant"} =>
              /\ pruneOut.once # <<>>
              /\ pruneOut.once[Len(pruneOut.once)] = pruneInput[Len(pruneInput)]

(***************************************************************************)
(* Properties of the reload manager next to a running turn                 *)
(***************************************************************************)
\* some call of the reload manager invokes a hook of the agent loop in
\* this step
HookInvoked ==
    \E c \in Callers : calls'[c].hooks # <<>> /\ calls'[c].hooks # calls[c].hooks

\* C11: the reload manager invokes the hot-update hooks of the agent loop
\* only while the loop is between turns.
C11_HooksOnlyBetweenTurns == [][HookInvoked => turn = "IDLE"]_vars

(***************************************************************************)
(* Properties of the memory tools                                          *)
(***************************************************************************)

\* whether a path lies under memory/users/
UnderUsers(path) ==
    /\ Len(path) > Len(WorkspacePath) + 2
    /\ SubSeq(path, 1, Len(WorkspacePath) + 2) = WorkspacePath \o <<"memory", "users">>

\* the user ids whose content a file holds
WritersOf(file) == {file.data[i].by : i \in {j \in DOMAIN file.data : file.data[j].kind = "text"}}

\* the user ids whose content memory_read returns for userID
ReadWriters(files, userID) ==
    LET r == MemoryRead(files, userID)
    IN WritersOf(r.longTerm) \cup WritersOf(r.notes)

\* C12: a memory_write or memory_append executed with a non-empty current
\* user A changes only files under memory/users/A/ and so leaves the result
\* of memory_read for every other user id and for the shared context as it
\* was; memory_read for a user returns only content written for that user;
\* with the empty user id the tools write only outside memory/users/.
C12_MemoryIsolation ==
    [][memFiles' # memFiles =>
         LET A == currentUserID
         IN /\ A # <<>> =>
                 /\ \A p \in MemPaths : memFiles'[p] # memFiles[p] =>
                        /\ UnderUsers(p)
                        /\ SubSeq(p, 1, Len(p) - 1) \in
                             {WorkspacePath \o <<"memory", "users">> \o A,
                              WorkspacePath \o <<"memory", "users">> \o A \o <<"YYYYMM">>}
                 /\ \A B \in MemUserIDs \ {A} :
                        MemoryRead(memFiles', B) = MemoryRead(memFiles, B)
            /\ A = <<>> => \A p \in MemPaths : memFiles'[p] # memFiles[p] => ~UnderUsers(p)
            /\ \A u \in MemUserIDs : ReadWriters(memFiles', u) \subseteq {u}]_vars

\* the isolation of C12 between the user ids that are plain directory names
C12_PlainIdsIsolated ==
    [][(memFiles' # memFiles /\ currentUserID \in {<<"A">>, <<"B">>}) =>
         /\ \A B \in {<<>>, <<"A">>, <<"B">>} \ {currentUserID} :
                MemoryRead(memFiles', B) = MemoryRead(memFiles, B)
         /\ ReadWriters(memFiles', currentUserID) \subseteq {currentUserID}]_vars

(***************************************************************************)
(* Properties of parallel turns                                            *)
(***************************************************************************)

\* C13: when the turns of two sessions of different users run in parallel,
\* every memory tool call made within a turn resolves to the memory path of
\* the user of that turn.
C13_OwnUserPath ==
    \A s \in Sessions : \A i \in DOMAIN sessions[s].resolved :
        sessions[s].resolved[i] = MemoryDir(SessionUser[s])

(***************************************************************************)
(* Properties of the tool-call iteration                                   *)
(***************************************************************************)

\* the index of the nearest assistant message before index i, or 0
NearestAssistant(messages, i) ==
    LET before == {j \in 1..(i - 1) : messages[j].Role = "assistant"}
    IN IF before = {} THEN 0 ELSE CHOOSE j \in before : \A k \in before : k <= j

\* every tool message answers a tool call of the nearest assistant message
\* before it
ToolsAnswerCalls(messages) ==
    \A i \in DOMAIN messages :
        messages[i].Role = "tool" =>
            LET j == NearestAssistant(messages, i)
            IN /\ j # 0
               /\ messages[i].ToolCallID \in Range(messages[j].ToolCalls)

\* C14: the assistant message AddAssistantMessage appends carries the
\* tool-call list of the response; every tool message AddToolResult appends
\* has the id of a tool call of the nearest assistant message before it, in
\* the order of the calls; AddToolResult changes no earlier message.
C14_ToolCallsPaired ==
    [][Len(loopMessages') = Len(loopMessages) + 1 =>
         LET last == loopMessages'[Len(loopMessages')]
         IN /\ SubSeq(loopMessages', 1, Len(loopMessages)) = loopMessages
            /\ last.Role = "assistant" => last.ToolCalls = pendingCalls'
            /\ last.Role = "tool" =>
                   /\ last.ToolCallID = Head(pendingCalls)
                   /\ ToolsAnswerCalls(loopMessages')]_vars

(***************************************************************************)
(* Properties of loading the configuration                                 *)
(***************************************************************************)

\* C15: after LoadConfig returns without error, a field whose environment
\* variable is set (PICOCLAW_AGENTS_DEFAULTS_MODEL) holds the value of the
\* variable, whether the config file has the key, lacks it or is absent.
C15_EnvOverrides ==
    (cfLoaded.called /\ ~cfLoaded.err /\ cfLoaded.env = "model")
        => cfLoaded.cfg.model = "env-model"

(***************************************************************************)
(* Properties of the classification of paths                               *)
(***************************************************************************)

\* the bootstrap file names of the workspace
BootstrapNames == {"IDENTITY.md", "SOUL.md", "AGENTS.md", "USER.md", "TOOLS.md", "HEARTBEAT.md"}

\* C16: a path is classified in a fixed order: config when it is the config
\* path; else bootstrap when its base name is one of IDENTITY.md, SOUL.md,
\* AGENTS.md, USER.md, TOOLS.md, HEARTBEAT.md and its parent is the
\* workspace; else skill when its base name is SKILL.md and the base name of
\* its grandparent is skills; every other path has no type and is ignored.
C16_ClassificationOrder ==
    classified.called =>
        classified.type =
            (LET path == classified.path
             IN IF Clean(path) = Clean(ConfigPath) THEN WatchEventConfig
                ELSE IF Base(path) \in BootstrapNames /\ Dir(path) = Clean(WorkspacePath)
                     THEN WatchEventBootstrap
                ELSE IF Base(path) = "SKILL.md" /\ Base(Dir(Dir(path))) = "skills"
                     THEN WatchEventSkill
                ELSE NoEventType)

(***************************************************************************)
(* Properties of LoadSkill                                                 *)
(***************************************************************************)

\* the indices of the skills ListSkills lists under a name
ListedUnder(skills, name) == {i \in DOMAIN skills : skills[i].Name = name}

\* C17: LoadSkill(n) returns the stripped contents of exactly the file that
\* ListSkills lists under the name n, and reports not-found when ListSkills
\* lists no skill of that name.
C17_LoadSkillMatchesList ==
    loadedSkill.called =>
        LET skills == ListSkills(skillRoots)
            listed == ListedUnder(skills, loadedSkill.name)
        IN IF listed = {} THEN ~loadedSkill.ok
           ELSE /\ loadedSkill.ok
                /\ \E i \in listed : skills[i].Path = loadedSkill.file

(***************************************************************************)
(* Properties of the frontmatter functions                                 *)
(***************************************************************************)

\* C18: for every content in which ParseFrontmatterBlock finds no
\* frontmatter block, StripFrontmatter returns the content unchanged, and the
\* two functions agree on whether the content has a leading frontmatter
\* block.
C18_StripAgreesWithParse ==
    mdOut.applied =>
        /\ ~mdOut.parsed.found => mdOut.stripped = mdContent
        /\ mdOut.parsed.found <=> StripFinds(mdContent)

(***************************************************************************)
(* Properties of closing the file watcher                                  *)
(***************************************************************************)

\* C19: when Close has returned, from whatever state it was called, the
\* event loop goroutine has exited, no debounce timer is pending, and no
\* WatchEvent is emitted afterwards.
C19_CloseLeavesNothing ==
    [][(fwClose = "closed" =>
            /\ fwLoop # "running"
            /\ \A t \in tmrs : ~Armed(t)
            /\ emitted' = emitted)]_vars

\* C27: no goroutine sends on fw.events after Close has closed it: a
\* debounce callback emits before the channel is closed or emits nothing,
\* in every interleaving of Close with the event loop and the callbacks.
C27_NoSendOnClosedChannel == ~fwPanicked

(***************************************************************************)
(* Properties of the signal handler                                        *)
(***************************************************************************)

\* a panic of the reload function leaves the handler running, and Stop
\* returns only after the handler goroutine has exited
SignalHandlerSafe ==
    /\ handler # "crashed"
    /\ handler = "exited" => stopPc \in {"doneClosed", "returned"}
    /\ stopPc = "returned" => handler = "exited"

\* C20 (as claimed): every SIGHUP the process receives while the handler is
\* running leads to one invocation of the reload function; a panic in one
\* invocation is recovered and later SIGHUPs are still handled; Stop returns
\* only after the handler goroutine has exited.
C20_EverySighupReloads ==
    /\ []SignalHandlerSafe
    /\ [](invoked <= sent)
    /\ \A n \in 1..MaxSignals : (sent >= n) ~> (invoked >= n \/ stopPc # "none")

\* C20 (amended): every SIGHUP the handler takes from its channel leads to
\* one invocation of the reload function, a SIGHUP is lost only when it
\* arrives while another one is still in the channel, and after a SIGHUP
\* there is at least one invocation unless Stop is called; the parts on
\* panics and on Stop are as claimed.
C20_TakenSighupReloads ==
    /\ []SignalHandlerSafe
    /\ [](invoked <= taken /\ sent = taken + sigChan + dropped)
    /\ [][dropped' # dropped => sigChan = SigChanCap]_vars
    /\ \A n \in 1..MaxSignals : (taken >= n) ~> (invoked >= n)
    /\ (sent >= 1) ~> (invoked >= 1 \/ stopPc # "none")

\* a second SIGHUP was dropped, the first one was taken and its invocation
\* paniced, and the handler has taken a later one
C20_Witness ==
    /\ dropped >= 1
    /\ recovered >= 1
    /\ taken >= 2
    /\ invoked >= 2
    /\ handler = "running"

(***************************************************************************)
(* Properties of the multi-part summarization                              *)
(***************************************************************************)

RECURSIVE Flatten(_)
\* the messages of the chunks, one chunk after the other
Flatten(chunks) ==
    IF chunks = <<>> THEN <<>> ELSE Head(chunks).Messages \o Flatten(Tail(chunks))

\* the messages not longer than half the chunk character budget, in order
NotOversized(messages, targetTokens) ==
    SelectSeq([i \in 1..Len(messages) |-> i],
              LAMBDA i : 2 * messages[i] <= targetTokens * 4)

\* C24: the chunks of splitMessagesForSummary hold no message longer than
\* half the chunk character budget targetTokens*4 and every other message
\* exactly once, in the original order; no chunk is empty and the content of
\* each chunk is at most the chunk character budget.
C24_ChunksPartition ==
    suChunks.called =>
        /\ Flatten(suChunks.chunks) = NotOversized(suMessages, suChunks.targetTokens)
        /\ \A c \in DOMAIN suChunks.chunks :
            /\ suChunks.chunks[c].Messages # <<>>
            /\ ContentChars(suMessages, suChunks.chunks[c].Messages)
                   <= suChunks.targetTokens * 4

\* two chunks, the second started because the first was full, and a message
\* left out between them
C24_Witness ==
    /\ suChunks.called
    /\ Len(suChunks.chunks) > 1
    /\ \E i \in DOMAIN suMessages :
        /\ 2 * suMessages[i] > suChunks.targetTokens * 4
        /\ suChunks.chunks[1].Messages[1] < i
        /\ i < suChunks.chunks[2].Messages[Len(suChunks.chunks[2].Messages)]

\* the requests of a kind among those of the last SummarizeMultipart
RequestsOfKind(kind) == SelectSeq(suRun.out.requests, LAMBDA r : r.kind = kind)

\* what C25 says of a call whose chunk requests left some summary
SurvivorsMerged ==
    LET out == suRun.out
        survivors == SelectSeq([i \in 1..out.chunks |-> i], LAMBDA i : i \notin suRun.failing)
    IN /\ RequestsOfKind("chunk") = [i \in 1..out.chunks |-> ChunkRequest(i)]
       /\ Len(RequestsOfKind("merge")) <= 1
       /\ out.summaries = survivors
       /\ Len(survivors) = 1 =>
              /\ out.result = ChunkSummary(survivors[1])
              /\ RequestsOfKind("merge") = <<>>
              /\ ~out.err
       /\ Len(survivors) >= 2 =>
              /\ Len(RequestsOfKind("merge")) = 1
              /\ ~out.err
              /\ out.result = IF suRun.mergeFails
                              THEN FallbackSummary(survivors[1], survivors[2])
                              ELSE MergedSummary(survivors)

\* C25: SummarizeMultipart issues one request per chunk and at most one merge
\* request; a failing chunk is skipped; one surviving summary is returned
\* without a merge; two or more are merged by one request, or on its failure
\* the first two are returned joined by the fallback note without error; if
\* no chunk summary survives the existing summary is returned with an error.
C25_NoSurvivorIsAnError ==
    suRun.called =>
        /\ SurvivorsMerged
        /\ suRun.out.summaries = <<>> =>
              /\ suRun.out.result = ExistingSummary(suRun.existing)
              /\ suRun.out.err

\* C25 as the code has it: with no chunk summary the existing summary is
\* returned, with an error unless the message list was empty, in which case
\* no request was issued at all.
C25_EmptyListIsNoError ==
    suRun.called =>
        /\ SurvivorsMerged
        /\ suRun.out.summaries = <<>> =>
              /\ suRun.out.result = ExistingSummary(suRun.existing)
              /\ suRun.out.err <=> suMessages # <<>>
        /\ suMessages = <<>> => suRun.out.requests = <<>>

\* three chunks, the first request failed, the merge of the other two failed
C25_Witness ==
    /\ suRun.called
    /\ suRun.out.chunks = 3
    /\ suRun.failing = {1}
    /\ suRun.mergeFails
    /\ suRun.out.result = FallbackSummary(2, 3)
    /\ suRun.existing # ""

(***************************************************************************)
(* Properties of the routing of config changes                             *)
(***************************************************************************)

\* the settings of the agent loop that have an Update* hook
AppliedValues(al) ==
    [model |-> al.model, contextWindow |-> al.contextWindow,
     bootstrapConfig |-> al.bootstrapConfig, pruningConfig |-> al.pruningConfig]

\* the file has stopped changing and every reload request has returned
AllReturned ==
    /\ ~unrequested
    /\ \A c \in Callers : calls[c].pc \in {"idle", "done"}

\* C28: no configuration change is lost: once the config file has stopped
\* changing and every reload request raised for it has returned, the
\* hot-reloadable values applied to the agent loop are those of the final
\* content of the file.
C28_NoChangeLost ==
    (AllReturned /\ configFile.kind = "valid") =>
        AppliedValues(agentLoop) = AppliedValues(NewAgentLoop(LoadConfig(configFile, env).cfg))

====
